---- MODULE Spec2Model ----
(***************************************************************************)
(* firefly-ec2-drift-detector: the drift orchestrator (service.DriftService) *)
(* on top of the resilient state fetcher (aws.EC2StateProvider): retry with *)
(* backoff, error classification, the shared rate limiter, batching, and    *)
(* the concurrent fan-out with its join.                                    *)
(***************************************************************************)
EXTENDS Integers, Sequences, FiniteSets, TLC

VARIABLES
    pc,             \* position of the DetectDrift goroutine
    tf,             \* what the StateParser yields: [states, err]
    instanceIDs,    \* DetectDrift's instanceIDs argument (resolved after parsing)
    expectedStates, \* the parsed baseline: the set of ids it has a snapshot for
    worker,         \* concurrent mode: one record per spawned goroutine
    wg,             \* sync.WaitGroup counter
    results,        \* the buffered results channel
    closed,         \* results has been closed
    reports,        \* reports collected so far
    errorMessages,  \* error messages collected so far
    authErrors,     \* concurrent mode: count of authentication-class failures
    batch,          \* GetInstanceStatesBatch: [i, states, allErrors, ret]
    ret,            \* what DetectDrift returned: [reports, err]
    tickAvail,      \* a tick is waiting in rateLimiter.C (channel of capacity 1)
    ctx,            \* the caller's context: "background", "active" or "done"
    faultsLeft,     \* how many more remote calls the environment may fail
    stats,          \* history: the requested list, counts of ticks, permits and calls
    cmp,            \* CompareAttributes, called twice on one triple:
                    \* [pc, expected, actual, attrs, i, report, run, first]
    cls             \* one classifyError call: [pc, instanceID, err, out]

vars == <<pc, tf, instanceIDs, expectedStates, worker, wg, results, closed, reports,
          errorMessages, authErrors, batch, ret, tickAvail, ctx, faultsLeft, stats, cmp,
          cls>>

----------------------------------------------------------------------------
(* Program constants *)

maxBatchSize == 1000
maxRetries == 5
initialBackoff == 1
maxBackoff == 32
BatchThreshold == 10

(* Bounds of the model *)

\* remote failures the environment may inject into a single fetch
MaxFaults == 6
\* remote failures the environment may inject into a run over a list of ids
ListFaults == 2
\* length of the short id lists
MaxLen == 2
\* a baseline of up to this many ids is ranged over in every order
MaxPermuted == 3
\* length of the security-group lists given to the comparator
MaxGroups == 3

----------------------------------------------------------------------------
(* Strings *)

UPPER == "ABCDEFGHIJKLMNOPQRSTUVWXYZ"
LOWER == "abcdefghijklmnopqrstuvwxyz"

LowerChar(c) ==
    IF \E i \in 1..Len(UPPER) : SubSeq(UPPER, i, i) = c
    THEN LET i == CHOOSE j \in 1..Len(UPPER) : SubSeq(UPPER, j, j) = c
         IN  SubSeq(LOWER, i, i)
    ELSE c

RECURSIVE ToLower(_)
ToLower(s) ==
    IF Len(s) = 0 THEN ""
    ELSE LowerChar(SubSeq(s, 1, 1)) \o ToLower(SubSeq(s, 2, Len(s)))

Contains(s, sub) ==
    \E i \in 1..(Len(s) - Len(sub) + 1) : SubSeq(s, i, i + Len(sub) - 1) = sub

UpperChar(c) ==
    IF \E i \in 1..Len(LOWER) : SubSeq(LOWER, i, i) = c
    THEN LET i == CHOOSE j \in 1..Len(LOWER) : SubSeq(LOWER, j, j) = c
         IN  SubSeq(UPPER, i, i)
    ELSE c

RECURSIVE ToUpper(_)
ToUpper(s) ==
    IF Len(s) = 0 THEN ""
    ELSE UpperChar(SubSeq(s, 1, 1)) \o ToUpper(SubSeq(s, 2, Len(s)))

----------------------------------------------------------------------------
(* Errors *)

NoErr == [kind |-> "nil"]

\* errors.New(msg) / fmt.Errorf without %w
NewError(msg) == [kind |-> "errorString", msg |-> msg]

\* fmt.Errorf(prefix + "%w", inner)
WrapError(prefix, inner) == [kind |-> "wrapError", msg |-> prefix, Err |-> inner]

EC2Error(id, err, retryable, type) ==
    [kind |-> "EC2Error", InstanceID |-> id, Err |-> err,
     IsRetryable |-> retryable, ErrorType |-> type]

ErrorTypeThrottling == "THROTTLING"
ErrorTypeAuthentication == "AUTHENTICATION"
ErrorTypeNotFound == "NOT_FOUND"
ErrorTypeNetwork == "NETWORK"
ErrorTypeUnknown == "UNKNOWN"

ErrorTypes ==
    {ErrorTypeThrottling, ErrorTypeAuthentication, ErrorTypeNotFound,
     ErrorTypeNetwork, ErrorTypeUnknown}

\* err.Error()
RECURSIVE ErrorString(_)
ErrorString(e) ==
    CASE e.kind = "errorString" -> e.msg
      [] e.kind = "wrapError" -> e.msg \o ErrorString(e.Err)
      [] e.kind = "EC2Error" ->
            "EC2 error for instance " \o e.InstanceID \o " [" \o e.ErrorType \o "]: "
                \o ErrorString(e.Err)
      [] OTHER -> "<nil>"

\* The messages the remote describe call may fail with.
Msgs ==
    {"Throttling: Rate exceeded",
     "AuthFailure: not able to validate",
     "InvalidInstanceID.NotFound",
     "dial tcp: connection refused",
     "context canceled"}

\* ClassOf with the network class left out of the retried ones
ClassOfNetworkNotRetried(errStrLower) ==
    IF Contains(errStrLower, "throttling")
           \/ Contains(errStrLower, "requestlimitexceeded")
           \/ Contains(errStrLower, "too many requests")
    THEN [ErrorType |-> ErrorTypeThrottling, IsRetryable |-> TRUE]
    ELSE IF Contains(errStrLower, "authfailure")
           \/ Contains(errStrLower, "unauthorizedoperation")
           \/ Contains(errStrLower, "access denied")
           \/ Contains(errStrLower, "validate the provided access credentials")
    THEN [ErrorType |-> ErrorTypeAuthentication, IsRetryable |-> FALSE]
    ELSE IF Contains(errStrLower, "does not exist")
           \/ Contains(errStrLower, "notfound")
           \/ Contains(errStrLower, "invalidinstanceid")
    THEN [ErrorType |-> ErrorTypeNotFound, IsRetryable |-> FALSE]
    ELSE IF Contains(errStrLower, "timeout")
           \/ Contains(errStrLower, "connection")
           \/ Contains(errStrLower, "network")
    THEN [ErrorType |-> ErrorTypeNetwork, IsRetryable |-> FALSE]
    ELSE [ErrorType |-> ErrorTypeUnknown, IsRetryable |-> FALSE]

\* the switch of classifyError, on the lower-cased message
ClassOf(errStrLower) ==
    IF Contains(errStrLower, "throttling")
           \/ Contains(errStrLower, "requestlimitexceeded")
           \/ Contains(errStrLower, "too many requests")
    THEN [ErrorType |-> ErrorTypeThrottling, IsRetryable |-> TRUE]
    ELSE IF Contains(errStrLower, "authfailure")
           \/ Contains(errStrLower, "unauthorizedoperation")
           \/ Contains(errStrLower, "access denied")
           \/ Contains(errStrLower, "validate the provided access credentials")
    THEN [ErrorType |-> ErrorTypeAuthentication, IsRetryable |-> FALSE]
    ELSE IF Contains(errStrLower, "does not exist")
           \/ Contains(errStrLower, "notfound")
           \/ Contains(errStrLower, "invalidinstanceid")
    THEN [ErrorType |-> ErrorTypeNotFound, IsRetryable |-> FALSE]
    ELSE IF Contains(errStrLower, "timeout")
           \/ Contains(errStrLower, "connection")
           \/ Contains(errStrLower, "network")
    THEN [ErrorType |-> ErrorTypeNetwork, IsRetryable |-> TRUE]
    ELSE [ErrorType |-> ErrorTypeUnknown, IsRetryable |-> FALSE]

\* aws.go:414-435: the substrings classifyError looks for
KnownPhrases ==
    {"throttling", "requestlimitexceeded", "too many requests", "authfailure",
     "unauthorizedoperation", "access denied", "validate the provided access credentials",
     "does not exist", "notfound", "invalidinstanceid", "timeout", "connection", "network"}

\* shorter phrases a failure message may carry
ShortPhrases == {"throttl", "auth", "not found", "timeout"}

\* failure messages built around a phrase, in lower and in upper case, and the
\* messages of the provider's tests
LexicalMsgs ==
    UNION {{ph, ToUpper(ph), "operation error EC2: DescribeInstances, " \o ph \o " (api)"} :
              ph \in KnownPhrases \cup ShortPhrases}
        \cup {"AWS API error: rate limit exceeded", "connection timeout",
              "authentication failed", "Request throttled", "instance not found",
              "internal failure"}

\* ClassOf of each message, evaluated once
ClassTable == [m \in Msgs \cup LexicalMsgs |-> ClassOf(ToLower(m))]

\* classifyError(instanceID, err), err a non-nil raw error of the remote call
classifyError(instanceID, err) ==
    LET c == ClassTable[ErrorString(err)]
    IN  EC2Error(instanceID, err, c.IsRetryable, c.ErrorType)

\* a check that finds no error to be of the authentication class
IsAuthErrorNever(err) == FALSE

\* errors.As(err, &ec2Err): the first *EC2Error in err's chain
RECURSIVE IsAuthError(_)
IsAuthError(err) ==
    CASE err.kind = "EC2Error" -> err.ErrorType = ErrorTypeAuthentication
      [] err.kind = "wrapError" -> IsAuthError(err.Err)
      [] OTHER -> FALSE

----------------------------------------------------------------------------
(* Snapshots, reports and the inputs of one DetectDrift call *)

Id(k) == "i-" \o ToString(k)

\* models.InstanceState, reduced to the field the orchestrator reads
Snapshot(id) == [InstanceID |-> id]

NilReport == [InstanceID |-> "<nil>"]

\* AttributeComparator.CompareAttributes as the orchestrator sees it: a report
\* carrying the id of the live snapshot
CompareAttributes(expected, actual) == [InstanceID |-> actual.InstanceID]

StatesOf(S) == [id \in S |-> Snapshot(id)]

Min(a, b) == IF a < b THEN a ELSE b

RECURSIVE SeqsUpTo(_, _)
SeqsUpTo(S, n) ==
    IF n = 0 THEN {<<>>}
    ELSE LET shorter == SeqsUpTo(S, n - 1)
         IN  shorter \cup {Append(q, x) : q \in {r \in shorter : Len(r) = n - 1}, x \in S}

IdList(n) == [k \in 1..n |-> Id(k)]

\* n ids of which only the first can be in a baseline
OneAndRest(n) == [k \in 1..n |-> IF k = 1 THEN Id(1) ELSE Id(2)]

SmallIds == {Id(1), Id(2)}

ParseFailure == NewError("open state.tf: no such file or directory")

Sorted(l) == \A i \in 1..(Len(l) - 1) : l[i] <= l[i + 1]

\* the short id lists: those over two ids, up to the order of the ids
ShortLists == {[k \in DOMAIN l |-> Id(l[k])] : l \in {q \in SeqsUpTo({1, 2}, MaxLen) : Sorted(q)}}

Baselines ==
    {[states |-> StatesOf(S), err |-> NoErr] : S \in SUBSET SmallIds}
        \cup {[states |-> StatesOf({}), err |-> ParseFailure]}

\* one id, and a remote that may fail every attempt of its fetch
FetchScenarios ==
    {[ids |-> <<Id(1)>>, tf |-> [states |-> StatesOf({Id(1)}), err |-> NoErr],
      faults |-> MaxFaults, ctx |-> "active"]}

\* short lists and every baseline: under a context that cannot be cancelled the
\* remote may fail ListFaults calls, under one that can it may fail one call
ShortScenarios ==
    {[ids |-> l, tf |-> t, faults |-> IF c = "active" THEN 1 ELSE ListFaults, ctx |-> c] :
        l \in ShortLists, t \in Baselines, c \in {"active", "background"}}

\* lists at the batch threshold and just above it, a remote that never fails and
\* the context of the command line, which is never cancelled
ThresholdScenarios ==
    {[ids |-> OneAndRest(n), tf |-> [states |-> StatesOf({Id(1)}), err |-> NoErr],
      faults |-> 0, ctx |-> "background"] :
        n \in {BatchThreshold, BatchThreshold + 1}}

\* lists of more than one chunk
ChunkedOf(n) ==
    {[ids |-> IdList(n), tf |-> [states |-> StatesOf(S), err |-> NoErr],
      faults |-> ListFaults, ctx |-> "active"] :
        S \in {{Id(k) : k \in 1..n}, {Id(k) : k \in 2..n}}}

ChunkedScenarios == ChunkedOf(maxBatchSize + 1) \cup ChunkedOf(2 * maxBatchSize + 1)

\* no id requested and a baseline of more ids than the batch threshold
DefaultedScenarios ==
    {[ids |-> <<>>,
      tf |-> [states |-> StatesOf({Id(k) : k \in 1..(BatchThreshold + 1)}), err |-> NoErr],
      faults |-> ListFaults, ctx |-> "active"]}

\* a list of two chunks whose last id is also its first: the second chunk holds
\* no id that the first does not hold
RepeatedScenarios ==
    {[ids |-> IdList(maxBatchSize) \o <<Id(1)>>,
      tf |-> [states |-> StatesOf({Id(k) : k \in 1..maxBatchSize}), err |-> NoErr],
      faults |-> ListFaults, ctx |-> "active"]}

Scenarios ==
    FetchScenarios \cup ShortScenarios \cup ThresholdScenarios \cup ChunkedScenarios
        \cup DefaultedScenarios \cup RepeatedScenarios

NilState == [InstanceID |-> "<nil>"]

\* DetectDrift has not returned; nilReports tells a nil slice from an empty one
NoRet == [reports |-> <<>>, nilReports |-> TRUE, err |-> NoErr, returned |-> FALSE]

\* a provider call has not returned
NoFetch == [state |-> NilState, err |-> NoErr, returned |-> FALSE]

\* no CompareAttributes call is being followed
NoCompare == [pc |-> "idle"]

\* no classifyError call is being followed
NoClassify == [pc |-> "idle"]

Init ==
    \E sc \in Scenarios :
        /\ pc = "start"
        /\ tf = sc.tf
        /\ instanceIDs = sc.ids
        /\ expectedStates = StatesOf({})
        /\ worker = <<>>
        /\ wg = 0
        /\ results = <<>>
        /\ closed = FALSE
        /\ reports = <<>>
        /\ errorMessages = <<>>
        /\ authErrors = 0
        /\ batch = [i |-> 0, states |-> StatesOf({}), allErrors |-> <<>>,
                    ret |-> [states |-> StatesOf({}), err |-> NoErr, returned |-> FALSE]]
        /\ ret = NoRet
        /\ tickAvail = FALSE
        /\ ctx = sc.ctx
        /\ faultsLeft = sc.faults
        /\ cmp = NoCompare
        /\ cls = NoClassify
        /\ stats = [ticks |-> 0, describes |-> 0, getState |-> 0, getBatch |-> 0,
                    batchPermits |-> 0, chunks |-> <<>>, requested |-> sc.ids]

----------------------------------------------------------------------------
(* DetectDrift: parsing, resolving the id list, choosing the mode *)

AllOrders(S) ==
    {q \in [1..Cardinality(S) -> S] : \A i, j \in DOMAIN q : q[i] = q[j] => i = j}

\* the ids of S by ascending number, started at the r-th and wrapped around
Rotation(S, r) ==
    LET asc == SelectSeq(IdList(2 * maxBatchSize + 1), LAMBDA id : id \in S)
    IN  SubSeq(asc, r, Len(asc)) \o SubSeq(asc, 1, r - 1)

\* an empty list that stays empty
OrderingsNone(S) == {<<>>}

\* service.go:56-63: the range over the map yields its keys in an order the
\* runtime chooses; every order for a small map, the rotations of the ascending
\* order for a larger one
Orderings(S) ==
    IF Cardinality(S) <= MaxPermuted
    THEN AllOrders(S)
    ELSE {Rotation(S, r) : r \in 1..Cardinality(S)}

\* a threshold of twice the size
UseBatchModeAboveTwice(n) == n > 2 * BatchThreshold

\* the threshold itself already taken as batch
UseBatchModeAtThreshold(n) == n >= BatchThreshold

\* service.go:70
UseBatchMode(n) == n > BatchThreshold

\* a DetectDrift that goes on with an empty baseline when the parser failed
DetectDriftIgnoringParseError ==
    /\ pc = "start"
    /\ \E ids \in (IF Len(instanceIDs) = 0
                    THEN Orderings(DOMAIN tf.states)
                    ELSE {instanceIDs}) :
          /\ instanceIDs' = ids
          /\ pc' = IF UseBatchMode(Len(ids)) THEN "batch" ELSE "spawn"
    /\ expectedStates' = tf.states
    /\ UNCHANGED <<cls, cmp, tf, worker, wg, results, closed, reports, errorMessages, authErrors,
                   batch, ret, tickAvail, ctx, faultsLeft, stats>>

\* service.go:42-77
DetectDrift ==
    /\ pc = "start"
    /\ IF tf.err # NoErr
       THEN /\ ret' = [reports |-> <<>>, nilReports |-> TRUE,
                       err |-> WrapError("failed to parse terraform state: ", tf.err),
                       returned |-> TRUE]
            /\ pc' = "done"
            /\ UNCHANGED <<instanceIDs, expectedStates>>
       ELSE /\ \E ids \in (IF Len(instanceIDs) = 0
                           THEN Orderings(DOMAIN tf.states)
                           ELSE {instanceIDs}) :
                  /\ instanceIDs' = ids
                  /\ pc' = IF UseBatchMode(Len(ids)) THEN "batch" ELSE "spawn"
            /\ expectedStates' = tf.states
            /\ UNCHANGED ret
    /\ UNCHANGED <<cls, cmp, tf, worker, wg, results, closed, reports, errorMessages, authErrors,
                   batch, tickAvail, ctx, faultsLeft, stats>>

----------------------------------------------------------------------------
(* The shared rate limiter and the caller's context *)

\* the ticker puts a tick into rateLimiter.C; with the slot taken the tick is dropped
Tick ==
    /\ ~tickAvail
    /\ tickAvail' = TRUE
    /\ stats' = [stats EXCEPT !.ticks = @ + 1]
    /\ UNCHANGED <<cls, cmp, pc, tf, instanceIDs, expectedStates, worker, wg, results, closed,
                   reports, errorMessages, authErrors, batch, ret, ctx, faultsLeft>>

CtxDone == ctx = "done"

\* the caller cancels a context that can be cancelled (context.Background() cannot)
Cancel ==
    /\ ctx = "active"
    /\ ~ret.returned
    /\ ctx' = "done"
    /\ UNCHANGED <<cls, cmp, pc, tf, instanceIDs, expectedStates, worker, wg, results, closed,
                   reports, errorMessages, authErrors, batch, ret, tickAvail, faultsLeft,
                   stats>>

----------------------------------------------------------------------------
(* The remote describe call *)

\* what one single-id DescribeInstances call may answer: an error, or a result
\* with the instance, with no reservation, or with a reservation of no instance
RemoteOutcomes == {"ok", "noReservation", "noInstance"} \cup Msgs

\* result.Reservations of an answer without error, each reservation the list of
\* its instances
Reservations(instanceID, o) ==
    CASE o = "noReservation" -> <<>>
      [] o = "noInstance" -> << <<>> >>
      [] OTHER -> << <<Snapshot(instanceID)>> >>

\* aws.go:274
NoInstanceIn(reservations) ==
    IF Len(reservations) = 0 THEN TRUE ELSE Len(reservations[1]) = 0

\* a fetch that takes an answer without the instance for a failure worth a retry
fetchInstanceStateRetryingNotFound(instanceID, o) ==
    IF o \in Msgs
    THEN [state |-> NilState, err |-> classifyError(instanceID, NewError(o))]
    ELSE IF NoInstanceIn(Reservations(instanceID, o))
    THEN [state |-> NilState,
          err |-> EC2Error(instanceID, NewError("instance not found in AWS"), TRUE,
                           ErrorTypeNotFound)]
    ELSE [state |-> Reservations(instanceID, o)[1][1], err |-> NoErr]

\* what one multi-id DescribeInstances call may answer
BatchOutcomes == {"ok", "partial"} \cup Msgs

IsFault(o) == o \notin {"ok", "partial"}

\* fetchInstanceState(ctx, instanceID) when the remote call answers o
fetchInstanceState(instanceID, o) ==
    IF o \in Msgs
    THEN [state |-> NilState, err |-> classifyError(instanceID, NewError(o))]
    ELSE IF NoInstanceIn(Reservations(instanceID, o))
    THEN [state |-> NilState,
          err |-> EC2Error(instanceID, NewError("instance not found in AWS"), FALSE,
                           ErrorTypeNotFound)]
    ELSE [state |-> Reservations(instanceID, o)[1][1], err |-> NoErr]

----------------------------------------------------------------------------
(* Concurrent mode: one goroutine per id, each running GetInstanceState *)

NewWorker(id) ==
    [id |-> id, pc |-> "start", attempt |-> 0, backoff |-> initialBackoff,
     lastErr |-> NoErr, out |-> NoFetch,
     \* history: remote calls made, ticks received, backoffs waited, and the class of
     \* each failed attempt
     calls |-> 0, permits |-> 0, waits |-> <<>>, failures |-> <<>>]

Spawn ==
    /\ pc = "spawn"
    /\ Len(worker) < Len(instanceIDs)
    /\ worker' = Append(worker, NewWorker(instanceIDs[Len(worker) + 1]))
    /\ wg' = wg + 1
    /\ UNCHANGED <<cls, cmp, pc, tf, instanceIDs, expectedStates, results, closed, reports,
                   errorMessages, authErrors, batch, ret, tickAvail, ctx, faultsLeft,
                   stats>>

\* the loop is over: the closing goroutine is started and the results are ranged over
SpawnDone ==
    /\ pc = "spawn"
    /\ Len(worker) = Len(instanceIDs)
    /\ pc' = "collect"
    /\ UNCHANGED <<cls, cmp, tf, instanceIDs, expectedStates, worker, wg, results, closed, reports,
                   errorMessages, authErrors, batch, ret, tickAvail, ctx, faultsLeft,
                   stats>>

\* the result the goroutine sends once GetInstanceState returned out
WorkerResult(id, out) ==
    IF out.err # NoErr
    THEN [report |-> NilReport, err |-> out.err]
    ELSE [report |-> CompareAttributes(expectedStates[id], out.state), err |-> NoErr]

\* a goroutine that sends res and ends without wg.Done
SendAndExitWithoutDone(w, rec, res) ==
    /\ worker' = [worker EXCEPT ![w] = [rec EXCEPT !.pc = "done"]]
    /\ results' = Append(results, res)
    /\ wg' = wg

\* the goroutine sends res and ends (deferred wg.Done)
SendAndExit(w, rec, res) ==
    /\ worker' = [worker EXCEPT ![w] = [rec EXCEPT !.pc = "done"]]
    /\ results' = Append(results, res)
    /\ wg' = wg - 1

\* GetInstanceState returns (state, err): to DetectSingleDrift, which called it
\* itself, or to the goroutine of detectDriftConcurrent
Return(w, rec, state, err) ==
    LET out == [state |-> state, err |-> err, returned |-> TRUE]
    IN  IF pc = "single"
        THEN /\ worker' = [worker EXCEPT ![w] = [rec EXCEPT !.out = out, !.pc = "done"]]
             /\ UNCHANGED <<results, wg>>
        ELSE SendAndExit(w, [rec EXCEPT !.out = out], WorkerResult(rec.id, out))

\* a lookup that always finds a snapshot
InBaselineAlways(id) == TRUE

\* service.go:169
InBaseline(id) == id \in DOMAIN expectedStates

\* service.go:169-180: the lookup, and the entry into GetInstanceState
WorkerStart(w) ==
    /\ worker[w].pc = "start"
    /\ IF ~InBaseline(worker[w].id)
       THEN /\ SendAndExit(w, worker[w],
                    [report |-> NilReport,
                     err |-> NewError("instance " \o worker[w].id
                                         \o " not in terraform state")])
            /\ UNCHANGED stats
       ELSE /\ worker' = [worker EXCEPT ![w].pc = "limiter"]
            /\ stats' = [stats EXCEPT !.getState = @ + 1]
            /\ UNCHANGED <<results, wg>>
    /\ UNCHANGED <<cls, cmp, pc, tf, instanceIDs, expectedStates, closed, reports, errorMessages,
                   authErrors, batch, ret, tickAvail, ctx, faultsLeft>>

\* aws.go:207-216, the select of a retry: the context is done
WorkerBackoffCancelled(w) ==
    /\ worker[w].pc = "backoff"
    /\ CtxDone
    /\ Return(w, worker[w], NilState,
              EC2Error(worker[w].id, NewError("context canceled"), FALSE, ErrorTypeNetwork))
    /\ UNCHANGED <<cls, cmp, pc, tf, instanceIDs, expectedStates, closed, reports, errorMessages,
                   authErrors, batch, ret, tickAvail, ctx, faultsLeft, stats>>

\* a select that can take the timer although the context is done
TimerMayFireAnyway(done) == TRUE

\* the wait of the select ends by the timer only while the context is not done
TimerMayFire(done) == ~done

\* aws.go:207-216, the select of a retry: the backoff has elapsed
WorkerBackoffElapsed(w) ==
    /\ worker[w].pc = "backoff"
    /\ TimerMayFire(CtxDone)
    /\ worker' = [worker EXCEPT ![w].pc = "limiter",
                                ![w].waits = Append(@, worker[w].backoff)]
    /\ UNCHANGED <<cls, cmp, pc, tf, instanceIDs, expectedStates, wg, results, closed, reports,
                   errorMessages, authErrors, batch, ret, tickAvail, ctx, faultsLeft,
                   stats>>

\* a receive that leaves the tick in the channel
WorkerLimiterKeepsTick(w) ==
    /\ worker[w].pc = "limiter"
    /\ tickAvail
    /\ worker' = [worker EXCEPT ![w].pc = "call", ![w].permits = @ + 1]
    /\ UNCHANGED <<cls, cmp, pc, tf, instanceIDs, expectedStates, wg, results, closed, reports,
                   errorMessages, authErrors, batch, ret, tickAvail, ctx, faultsLeft, stats>>

\* a receive from the rate limiter in a select with ctx.Done()
WorkerLimiterOrCancelled(w) ==
    /\ worker[w].pc = "limiter"
    /\ IF CtxDone
       THEN /\ Return(w, worker[w], NilState,
                      EC2Error(worker[w].id, NewError("context canceled"), FALSE,
                               ErrorTypeNetwork))
            /\ UNCHANGED tickAvail
       ELSE /\ tickAvail
            /\ tickAvail' = FALSE
            /\ worker' = [worker EXCEPT ![w].pc = "call", ![w].permits = @ + 1]
            /\ UNCHANGED <<wg, results>>
    /\ UNCHANGED <<cls, cmp, pc, tf, instanceIDs, expectedStates, closed, reports, errorMessages,
                   authErrors, batch, ret, ctx, faultsLeft, stats>>

\* aws.go:219: <-p.rateLimiter.C
WorkerLimiter(w) ==
    /\ worker[w].pc = "limiter"
    /\ tickAvail
    /\ tickAvail' = FALSE
    /\ worker' = [worker EXCEPT ![w].pc = "call", ![w].permits = @ + 1]
    /\ UNCHANGED <<cls, cmp, pc, tf, instanceIDs, expectedStates, wg, results, closed, reports,
                   errorMessages, authErrors, batch, ret, ctx, faultsLeft, stats>>

\* aws.go:248
NextBackoff(backoff) == Min(backoff * 2, maxBackoff)

\* one attempt too many
MayAttemptOnceMore(attempt) == attempt <= maxRetries + 1

\* aws.go:199, the loop condition
MayAttempt(attempt) == attempt <= maxRetries

\* only an authentication failure ends the loop
IsTerminalAuthOnly(ec2Err) == ec2Err.ErrorType = ErrorTypeAuthentication

\* aws.go:233
IsTerminal(ec2Err) == ~ec2Err.IsRetryable

\* aws.go:221-261: one attempt and what the loop does with its result
WorkerCall(w) ==
    /\ worker[w].pc = "call"
    /\ \E o \in RemoteOutcomes :
          /\ IsFault(o) => faultsLeft > 0
          /\ faultsLeft' = IF IsFault(o) THEN faultsLeft - 1 ELSE faultsLeft
          /\ LET me == [worker[w] EXCEPT !.calls = @ + 1]
                 r == fetchInstanceState(me.id, o)
                 ec2Err == IF r.err.kind = "EC2Error" THEN r.err
                           ELSE classifyError(me.id, r.err)
                 failed == [me EXCEPT !.lastErr = ec2Err,
                                      !.failures = Append(@, ec2Err.ErrorType)]
                 again == [failed EXCEPT !.backoff = NextBackoff(@), !.attempt = @ + 1]
             IN  IF r.err = NoErr
                 THEN Return(w, me, r.state, NoErr)
                 ELSE IF IsTerminal(ec2Err)
                 THEN Return(w, failed, NilState, ec2Err)
                 ELSE IF MayAttempt(again.attempt)
                 THEN /\ worker' = [worker EXCEPT ![w] = [again EXCEPT !.pc = "backoff"]]
                      /\ UNCHANGED <<results, wg>>
                 ELSE Return(w, again, NilState,
                             EC2Error(me.id, WrapError("max retries exceeded: ", ec2Err),
                                      FALSE, ErrorTypeUnknown))
    /\ stats' = [stats EXCEPT !.describes = @ + 1]
    /\ UNCHANGED <<cls, cmp, pc, tf, instanceIDs, expectedStates, closed, reports, errorMessages,
                   authErrors, batch, ret, tickAvail, ctx>>

\* a closing goroutine that does not wait for the workers
CloseResultsWithoutWait ==
    /\ pc = "collect"
    /\ ~closed
    /\ closed' = TRUE
    /\ UNCHANGED <<cls, cmp, pc, tf, instanceIDs, expectedStates, worker, wg, results, reports,
                   errorMessages, authErrors, batch, ret, tickAvail, ctx, faultsLeft,
                   stats>>

\* service.go:197-200: wg.Wait() returned
CloseResults ==
    /\ pc = "collect"
    /\ wg = 0
    /\ ~closed
    /\ closed' = TRUE
    /\ UNCHANGED <<cls, cmp, pc, tf, instanceIDs, expectedStates, worker, wg, results, reports,
                   errorMessages, authErrors, batch, ret, tickAvail, ctx, faultsLeft,
                   stats>>

\* service.go:206-215: one iteration of the range over results
Collect ==
    /\ pc = "collect"
    /\ Len(results) > 0
    /\ LET res == Head(results)
       IN  IF res.err # NoErr
           THEN /\ authErrors' = IF IsAuthError(res.err) THEN authErrors + 1 ELSE authErrors
                /\ errorMessages' = Append(errorMessages, ErrorString(res.err))
                /\ UNCHANGED reports
           ELSE /\ reports' = Append(reports, res.report)
                /\ UNCHANGED <<errorMessages, authErrors>>
    /\ results' = Tail(results)
    /\ UNCHANGED <<cls, cmp, pc, tf, instanceIDs, expectedStates, worker, wg, closed, batch, ret,
                   tickAvail, ctx, faultsLeft, stats>>

\* the count is reported even for a single failure
ConcurrentSummaryCountOnly(msgs, auth) ==
    IF auth > 0
    THEN ToString(Len(msgs)) \o " instance(s) failed (" \o ToString(auth)
             \o " authentication errors)"
    ELSE ToString(Len(msgs)) \o " instance(s) failed"

\* service.go:224-229
ConcurrentSummary(msgs, auth) ==
    IF Len(msgs) = 1 THEN msgs[1]
    ELSE IF auth > 0
    THEN ToString(Len(msgs)) \o " instance(s) failed (" \o ToString(auth)
             \o " authentication errors)"
    ELSE ToString(Len(msgs)) \o " instance(s) failed"

\* a return that drops the reports when some id failed
CollectDoneAllOrNothing ==
    /\ pc = "collect"
    /\ Len(results) = 0
    /\ closed
    /\ ret' = IF Len(errorMessages) > 0
              THEN [reports |-> <<>>, nilReports |-> TRUE,
                    err |-> NewError(ConcurrentSummary(errorMessages, authErrors)),
                    returned |-> TRUE]
              ELSE [reports |-> reports, nilReports |-> FALSE, err |-> NoErr,
                    returned |-> TRUE]
    /\ pc' = "done"
    /\ UNCHANGED <<cls, cmp, tf, instanceIDs, expectedStates, worker, wg, results, closed,
                   reports, errorMessages, authErrors, batch, tickAvail, ctx, faultsLeft,
                   stats>>

\* service.go:217-234: the channel is closed and drained
CollectDone ==
    /\ pc = "collect"
    /\ Len(results) = 0
    /\ closed
    /\ ret' = [reports |-> reports, nilReports |-> FALSE,
               err |-> IF Len(errorMessages) > 0
                       THEN NewError(ConcurrentSummary(errorMessages, authErrors))
                       ELSE NoErr,
               returned |-> TRUE]
    /\ pc' = "done"
    /\ UNCHANGED <<cls, cmp, tf, instanceIDs, expectedStates, worker, wg, results, closed, reports,
                   errorMessages, authErrors, batch, tickAvail, ctx, faultsLeft, stats>>

----------------------------------------------------------------------------
(* Batch mode: GetInstanceStatesBatch, then one pass over the requested ids *)

\* a chunk that ends one id early
ChunkEndShort(i, n) == Min(i + maxBatchSize - 1, n)

\* aws.go:308-313: the end of the chunk that starts after index i
ChunkEnd(i, n) == Min(i + maxBatchSize, n)

\* aws.go:313: batch := instanceIDs[i:end]
Chunk(i) == SubSeq(instanceIDs, i + 1, ChunkEnd(i, Len(instanceIDs)))

\* the loop condition of aws.go:307, and the return of aws.go:332-336
BatchLoop(b) ==
    IF b.i < Len(instanceIDs)
    THEN /\ batch' = b
         /\ pc' = "batchLimiter"
    ELSE /\ batch' = [b EXCEPT !.ret =
                        [states |-> b.states,
                         err |-> IF Len(b.allErrors) > 0
                                 THEN NewError("batch fetch encountered "
                                         \o ToString(Len(b.allErrors)) \o " error(s)")
                                 ELSE NoErr,
                         returned |-> TRUE]]
         /\ pc' = "batchResolve"

\* service.go:109: detectDriftBatch calls GetInstanceStatesBatch
BatchStart ==
    /\ pc = "batch"
    /\ BatchLoop(batch)
    /\ stats' = [stats EXCEPT !.getBatch = @ + 1]
    /\ UNCHANGED <<cls, cmp, tf, instanceIDs, expectedStates, worker, wg, results, closed, reports,
                   errorMessages, authErrors, ret, tickAvail, ctx, faultsLeft>>

\* aws.go:340: <-p.rateLimiter.C
BatchLimiter ==
    /\ pc = "batchLimiter"
    /\ tickAvail
    /\ tickAvail' = FALSE
    /\ pc' = "batchCall"
    /\ stats' = [stats EXCEPT !.batchPermits = @ + 1]
    /\ UNCHANGED <<cls, cmp, tf, instanceIDs, expectedStates, worker, wg, results, closed, reports,
                   errorMessages, authErrors, batch, ret, ctx, faultsLeft>>

\* fetchInstanceStatesBatch(ctx, chunk) when the remote call answers o
\* ("partial": the remote knows every id of the chunk but its first)
fetchInstanceStatesBatch(chunk, o) ==
    IF o \in Msgs
    THEN [states |-> StatesOf({}), err |-> classifyError("batch", NewError(o))]
    ELSE IF o = "partial"
    THEN [states |-> StatesOf({chunk[k] : k \in 2..Len(chunk)}), err |-> NoErr]
    ELSE [states |-> StatesOf({chunk[k] : k \in 1..Len(chunk)}), err |-> NoErr]

\* aws.go:327-329
Merge(states, more) ==
    LET added == DOMAIN more
    IN  [id \in DOMAIN states \cup added |-> IF id \in added THEN more[id] ELSE states[id]]

\* a failed chunk ends the loop
AfterChunkAbort(b, r) ==
    IF r.err # NoErr
    THEN [b EXCEPT !.allErrors = Append(@, r.err), !.i = Len(instanceIDs)]
    ELSE [b EXCEPT !.states = Merge(@, r.states), !.i = @ + maxBatchSize]

\* aws.go:321-330: what the loop does with a chunk's result
AfterChunk(b, r) ==
    IF r.err # NoErr
    THEN [b EXCEPT !.allErrors = Append(@, r.err), !.i = @ + maxBatchSize]
    ELSE [b EXCEPT !.states = Merge(@, r.states), !.i = @ + maxBatchSize]

\* aws.go:342-359 and the rest of the loop body
BatchCall ==
    /\ pc = "batchCall"
    /\ \E o \in BatchOutcomes :
          /\ IsFault(o) => faultsLeft > 0
          /\ faultsLeft' = IF IsFault(o) THEN faultsLeft - 1 ELSE faultsLeft
          /\ LET r == fetchInstanceStatesBatch(Chunk(batch.i), o)
             IN  /\ BatchLoop(AfterChunk(batch, r))
                 /\ stats' = [stats EXCEPT
                                !.describes = @ + 1,
                                !.chunks = Append(@, [first |-> batch.i + 1,
                                                      last |-> batch.i + Len(Chunk(batch.i)),
                                                      failed |-> r.err # NoErr,
                                                      err |-> r.err,
                                                      got |-> DOMAIN r.states])]
    /\ UNCHANGED <<cls, cmp, tf, instanceIDs, expectedStates, worker, wg, results, closed, reports,
                   errorMessages, authErrors, ret, tickAvail, ctx>>

\* the pass over the ids ends at the first id that fails
BatchResolvedUntilFailure(ids, expected, actual) ==
    LET both == DOMAIN expected \cap DOMAIN actual
        bad == {k \in DOMAIN ids : ids[k] \notin both}
    IN  IF bad = {} THEN ids
        ELSE SubSeq(ids, 1, (CHOOSE k \in bad : \A j \in bad : k <= j) - 1)

\* service.go:120-141: the ids that yield a report, in request order
BatchResolved(ids, expected, actual) ==
    LET both == DOMAIN expected \cap DOMAIN actual
    IN  SelectSeq(ids, LAMBDA id : id \in both)

\* service.go:120-141: the ids that fail, in request order
BatchFailed(ids, expected, actual) ==
    LET both == DOMAIN expected \cap DOMAIN actual
    IN  SelectSeq(ids, LAMBDA id : id \notin both)

\* every failure blamed on the remote
BatchMessageFromRemote(id, expected) == "instance " \o id \o " not found in AWS"

\* service.go:121-137: the message of an id that fails
BatchMessage(id, expected) ==
    IF id \notin DOMAIN expected
    THEN "instance " \o id \o " not in terraform state"
    ELSE "instance " \o id \o " not found in AWS"

\* service.go:139-140, for the ids that resolved
BatchReports(ok, expected, actual) ==
    [k \in 1..Len(ok) |-> CompareAttributes(expected[ok[k]], actual[ok[k]])]

\* service.go:126 and 135, for the ids that failed
BatchMessages(bad, expected) == [k \in 1..Len(bad) |-> BatchMessage(bad[k], expected)]

\* a return that hands on the error of GetInstanceStatesBatch
BatchReturnWithFetchError(reps, msgs) ==
    [reports |-> reps, nilReports |-> FALSE,
     err |-> IF batch.ret.err # NoErr THEN batch.ret.err
             ELSE IF Len(msgs) > 0
             THEN NewError(ToString(Len(msgs)) \o " instance(s) failed")
             ELSE NoErr,
     returned |-> TRUE]

\* service.go:143-148
BatchReturn(reps, msgs) ==
    [reports |-> reps, nilReports |-> FALSE,
     err |-> IF Len(msgs) > 0
             THEN NewError(ToString(Len(msgs)) \o " instance(s) failed")
             ELSE NoErr,
     returned |-> TRUE]

\* service.go:117-148
BatchResolve ==
    /\ pc = "batchResolve"
    /\ reports' = BatchReports(BatchResolved(instanceIDs, expectedStates, batch.ret.states),
                               expectedStates, batch.ret.states)
    /\ errorMessages' = BatchMessages(
                            BatchFailed(instanceIDs, expectedStates, batch.ret.states),
                            expectedStates)
    /\ ret' = BatchReturn(reports', errorMessages')
    /\ pc' = "done"
    /\ UNCHANGED <<cls, cmp, tf, instanceIDs, expectedStates, worker, wg, results, closed,
                   authErrors, batch, tickAvail, ctx, faultsLeft, stats>>

----------------------------------------------------------------------------

Next ==
    \/ DetectDrift
    \/ Tick
    \/ Cancel
    \/ Spawn
    \/ SpawnDone
    \/ \E w \in DOMAIN worker : WorkerStart(w)
    \/ \E w \in DOMAIN worker : WorkerBackoffCancelled(w)
    \/ \E w \in DOMAIN worker : WorkerBackoffElapsed(w)
    \/ \E w \in DOMAIN worker : WorkerLimiter(w)
    \/ \E w \in DOMAIN worker : WorkerCall(w)
    \/ CloseResults
    \/ Collect
    \/ CollectDone
    \/ BatchStart
    \/ BatchLimiter
    \/ BatchCall
    \/ BatchResolve

Spec == Init /\ [][Next]_vars

----------------------------------------------------------------------------
(* Properties *)

\* DetectDrift returned from the concurrent path / from the batch path
ConcurrentRun == ret.returned /\ tf.err = NoErr /\ Len(instanceIDs) <= 10

BatchRun == ret.returned /\ tf.err = NoErr /\ Len(instanceIDs) > 10

\* the k-th requested id got its live snapshot from GetInstanceState
FetchedOK(k) == worker[k].out.returned /\ worker[k].out.err = NoErr

ReportIds == [j \in DOMAIN ret.reports |-> ret.reports[j].InstanceID]

ReportsFor(id) == Cardinality({j \in DOMAIN ret.reports : ret.reports[j].InstanceID = id})

FailureMessage(k) ==
    IF instanceIDs[k] \notin DOMAIN expectedStates
    THEN "instance " \o instanceIDs[k] \o " not in terraform state"
    ELSE ErrorString(worker[k].out.err)

InBaselineCount == Cardinality({k \in DOMAIN instanceIDs : instanceIDs[k] \in DOMAIN expectedStates})

\* C3: the mode follows from the resolved id count alone. More than 10 ids: one
\* GetInstanceStatesBatch call and no GetInstanceState call; 10 ids or fewer: no
\* batch call and one GetInstanceState call per requested id of the baseline. One
\* invocation never uses both operations.
C3_ModeSelection ==
    /\ ~(stats.getState > 0 /\ stats.getBatch > 0)
    /\ stats.getBatch <= 1
    /\ stats.getBatch = 1 => Len(instanceIDs) >= 11
    /\ stats.getState > 0 => Len(instanceIDs) <= 10
    /\ BatchRun => stats.getBatch = 1 /\ stats.getState = 0
    /\ ConcurrentRun => stats.getBatch = 0 /\ stats.getState = InBaselineCount

\* a run over exactly 10 ids that went the concurrent way and fetched
C3_Witness ==
    /\ ConcurrentRun
    /\ Len(instanceIDs) = 10
    /\ stats.getState = 1
    /\ Len(ret.reports) = 1

\* C4: one GetInstanceState makes at most 6 remote calls; when all 6 attempts
\* failed retryably it returns no snapshot and a non-retryable error that wraps
\* the last classified cause.
C4_RetryBudget ==
    \A w \in DOMAIN worker :
        /\ worker[w].calls <= 6
        /\ (Len(worker[w].failures) = 6 /\ worker[w].lastErr.IsRetryable) =>
              /\ worker[w].calls = 6
              /\ worker[w].out.returned
              /\ worker[w].out.state = NilState
              /\ worker[w].out.err.kind = "EC2Error"
              /\ ~worker[w].out.err.IsRetryable
              /\ worker[w].out.err.Err =
                    WrapError("max retries exceeded: ", worker[w].lastErr)

\* a fetch whose six attempts all failed
C4_Witness ==
    \E w \in DOMAIN worker :
        /\ Len(worker[w].failures) = 6
        /\ worker[w].lastErr.IsRetryable
        /\ worker[w].out.returned

\* C5: an attempt that fails with a non-retryable class ends the call at once with
\* that classified error: no backoff wait, no permit and no remote call follow.
C5_NonRetryableReturns ==
    \A w \in DOMAIN worker :
        (worker[w].lastErr # NoErr /\ ~worker[w].lastErr.IsRetryable)
        => /\ worker[w].lastErr.ErrorType
                \in {ErrorTypeAuthentication, ErrorTypeNotFound, ErrorTypeUnknown}
           /\ worker[w].pc = "done"
           /\ worker[w].out.returned
           /\ worker[w].out.state = NilState
           /\ worker[w].out.err = worker[w].lastErr
           /\ worker[w].calls = Len(worker[w].failures)
           /\ worker[w].permits = worker[w].calls
           /\ Len(worker[w].waits) = worker[w].calls - 1

\* a fetch that was retried and then failed with a non-retryable class
C5_Witness ==
    \E w \in DOMAIN worker :
        /\ worker[w].lastErr # NoErr
        /\ ~worker[w].lastErr.IsRetryable
        /\ Len(worker[w].failures) >= 2

RECURSIVE Pow2(_)
Pow2(n) == IF n = 0 THEN 1 ELSE 2 * Pow2(n - 1)

OnlyThrottled(w) ==
    \A i \in DOMAIN worker[w].failures : worker[w].failures[i] = ErrorTypeThrottling

\* C6: throttling failures on attempts 1..k (k <= 5) followed by a success on
\* attempt k+1: the snapshot is returned with a nil error after exactly k+1 remote
\* calls and k backoff waits, of 1s, 2s, 4s, ... in this order.
C6_RetryThenSuccess ==
    \A w \in DOMAIN worker :
        (/\ worker[w].out.returned
         /\ worker[w].out.err = NoErr
         /\ OnlyThrottled(w))
        => /\ Len(worker[w].failures) <= 5
           /\ worker[w].out.state = Snapshot(worker[w].id)
           /\ worker[w].calls = Len(worker[w].failures) + 1
           /\ Len(worker[w].waits) = Len(worker[w].failures)
           /\ \A i \in DOMAIN worker[w].waits : worker[w].waits[i] = Pow2(i - 1)

IsCancelError(e) ==
    /\ e.kind = "EC2Error"
    /\ e.ErrorType = ErrorTypeNetwork
    /\ ~e.IsRetryable

\* C7: when the context is cancelled while GetInstanceState is in a backoff wait,
\* the only step the call can take is to fail with a non-retryable NETWORK error;
\* it makes no further remote call.
C7_CancelDuringBackoff ==
    [][\A w \in DOMAIN worker :
          (worker[w].pc = "backoff" /\ CtxDone /\ worker'[w] # worker[w])
          => /\ worker'[w].pc = "done"
             /\ worker'[w].out.returned
             /\ worker'[w].out.state = NilState
             /\ IsCancelError(worker'[w].out.err)
             /\ worker'[w].calls = worker[w].calls
             /\ worker'[w].permits = worker[w].permits]_vars

\* a fetch that was cancelled in its second backoff wait
C7_Witness ==
    \E w \in DOMAIN worker :
        /\ worker[w].out.returned
        /\ IsCancelError(worker[w].out.err)
        /\ worker[w].out.err.Err = NewError("context canceled")
        /\ worker[w].calls = 2
        /\ Len(worker[w].waits) = 1

\* ticks taken from the limiter whose remote call has not been made yet
PermitsHeld ==
    Cardinality({w \in DOMAIN worker : worker[w].pc = "call"})
        + (IF pc = "batchCall" THEN 1 ELSE 0)

\* C8: every remote describe call, of a single fetch or of a batch chunk, is
\* preceded by the receipt of one tick of the shared limiter, and a tick admits at
\* most one call: under every interleaving the remote calls made never exceed the
\* ticks the limiter delivered.
C8_RateLimited ==
    /\ stats.describes + PermitsHeld + (IF tickAvail THEN 1 ELSE 0) = stats.ticks
    /\ stats.describes <= stats.ticks
    /\ \A w \in DOMAIN worker :
          worker[w].permits = worker[w].calls + (IF worker[w].pc = "call" THEN 1 ELSE 0)
    /\ Len(stats.chunks) = (IF stats.getBatch = 1 THEN stats.describes ELSE 0)

\* two workers wait for the limiter at once, and every tick so far was used
C8_Witness ==
    /\ stats.describes >= 2
    /\ stats.describes = stats.ticks
    /\ \E v, w \in DOMAIN worker :
          v # w /\ worker[v].pc = "limiter" /\ worker[w].pc = "limiter"

\* the remote messages in which no known phrase occurs
Unmatched == {m \in Msgs : \A ph \in KnownPhrases : ~Contains(ToLower(m), ph)}

\* the errors classifyError produced and the program still holds
Classified ==
    {worker[w].lastErr : w \in {v \in DOMAIN worker : worker[v].lastErr # NoErr}}
        \cup {batch.allErrors[i] : i \in DOMAIN batch.allErrors}

\* C9: classifyError gives every failure one class of the five, retryable exactly
\* for THROTTLING and NETWORK; a failure that matches no known phrase is UNKNOWN
\* and is not retried.
C9_Classification ==
    /\ \A e \in Classified :
          /\ e.kind = "EC2Error"
          /\ e.ErrorType \in ErrorTypes
          /\ e.IsRetryable <=> e.ErrorType \in {ErrorTypeThrottling, ErrorTypeNetwork}
          /\ e.Err.msg \in Unmatched => e.ErrorType = ErrorTypeUnknown /\ ~e.IsRetryable
    /\ \A w \in DOMAIN worker :
          (worker[w].lastErr # NoErr /\ worker[w].lastErr.Err.msg \in Unmatched)
          => /\ worker[w].pc = "done"
             /\ worker[w].out.err = worker[w].lastErr
             /\ worker[w].calls = Len(worker[w].failures)

\* a network failure was retried and the fetch then failed with an unmatched message
C9_Witness ==
    \E w \in DOMAIN worker :
        /\ worker[w].lastErr # NoErr
        /\ worker[w].lastErr.Err.msg \in Unmatched
        /\ worker[w].failures = <<ErrorTypeNetwork, ErrorTypeUnknown>>

FailedChunks == {c \in DOMAIN stats.chunks : stats.chunks[c].failed}

\* C10: a failed chunk does not end GetInstanceStatesBatch. When it returns, every
\* chunk has been called, the map holds exactly what the successful chunks
\* answered, and the error is non-nil exactly when a chunk failed, its message
\* giving the number of failed chunks; an id missing from a successful answer is
\* no error here.
C10_ChunkFailureIsolated ==
    batch.ret.returned =>
        /\ Len(stats.chunks) = (Len(instanceIDs) + 999) \div 1000
        /\ \A c \in DOMAIN stats.chunks : stats.chunks[c].first = 1000 * (c - 1) + 1
        /\ DOMAIN batch.ret.states =
              UNION {stats.chunks[c].got : c \in DOMAIN stats.chunks \ FailedChunks}
        /\ (batch.ret.err # NoErr) <=> (FailedChunks # {})
        /\ FailedChunks # {} =>
              batch.ret.err = NewError("batch fetch encountered "
                                  \o ToString(Cardinality(FailedChunks)) \o " error(s)")

\* the first of three chunks failed, the second was answered with an id missing,
\* the third in full: 999 + 1 snapshots and an error that counts one failure
C10_Witness ==
    /\ batch.ret.returned
    /\ Len(stats.chunks) = 3
    /\ FailedChunks = {1}
    /\ Cardinality(stats.chunks[2].got) = 999
    /\ Cardinality(DOMAIN batch.ret.states) = 1000
    /\ batch.ret.err = NewError("batch fetch encountered 1 error(s)")

\* the chunks the loop of GetInstanceStatesBatch has to make for n ids
ChunkCount(n) == (n + maxBatchSize - 1) \div maxBatchSize

\* C11: GetInstanceStatesBatch cuts the id list, in order, into consecutive chunks
\* of at most 1000 ids, every chunk but the last of exactly 1000; the chunks are
\* called one after the other, each after one rate-limit permit and with exactly
\* one describe call: ceil(n/1000) calls for n ids, every position of the list in
\* exactly one chunk.
C11_Chunking ==
    /\ \A c \in DOMAIN stats.chunks :
          /\ stats.chunks[c].first = maxBatchSize * (c - 1) + 1
          /\ stats.chunks[c].last = Min(maxBatchSize * c, Len(instanceIDs))
          /\ stats.chunks[c].last - stats.chunks[c].first + 1 <= maxBatchSize
          /\ c < ChunkCount(Len(instanceIDs)) =>
                stats.chunks[c].last - stats.chunks[c].first + 1 = maxBatchSize
    /\ stats.batchPermits = Len(stats.chunks) + (IF pc = "batchCall" THEN 1 ELSE 0)
    /\ stats.getBatch = 1 => stats.describes = Len(stats.chunks)
    /\ batch.ret.returned =>
          /\ Len(stats.chunks) = ChunkCount(Len(instanceIDs))
          /\ \A k \in DOMAIN instanceIDs :
                Cardinality({c \in DOMAIN stats.chunks :
                                /\ stats.chunks[c].first <= k
                                /\ k <= stats.chunks[c].last}) = 1

\* 2001 ids: three permits, three calls, the last chunk holding the one id left
C11_Witness ==
    /\ batch.ret.returned
    /\ Len(instanceIDs) = 2 * maxBatchSize + 1
    /\ Len(stats.chunks) = 3
    /\ stats.batchPermits = 3
    /\ stats.chunks[3].first = 2 * maxBatchSize + 1
    /\ stats.chunks[3].last = 2 * maxBatchSize + 1

\* the describe calls GetInstanceStatesBatch made for the chunk of the c-th call
CallsForChunk(c) ==
    Cardinality({d \in DOMAIN stats.chunks : stats.chunks[d].first = stats.chunks[c].first})

\* a single-instance fetch that failed on a retryable error (not on a cancelled
\* wait) has made all its attempts
SingleFetchRetried ==
    \A w \in DOMAIN worker :
        (/\ worker[w].out.returned
         /\ worker[w].out.err # NoErr
         /\ ~IsCancelError(worker[w].out.err)
         /\ worker[w].lastErr # NoErr
         /\ worker[w].lastErr.IsRetryable)
        => worker[w].calls = maxRetries + 1

\* a chunk fetch whose failure on a retryable error is handed to detectDriftBatch
\* has made all its attempts
ChunkFetchRetried ==
    batch.ret.returned =>
        \A c \in DOMAIN stats.chunks :
            (stats.chunks[c].failed /\ stats.chunks[c].err.IsRetryable)
            => CallsForChunk(c) = maxRetries + 1

\* C12: every retryable fetch failure (THROTTLING or NETWORK), of a single-instance
\* fetch or of a batch chunk fetch, is retried inside the fetcher: the orchestrator
\* sees a failure caused by a retryable error only after the 6 attempts are used up.
C12_RetriedInsideFetcher == SingleFetchRetried /\ ChunkFetchRetried

\* the outcome of detectDriftBatch for the ids ok that resolve and the ids bad that
\* fail, both in request order
BatchOutcomeIs(ok, bad) ==
    /\ ReportIds = ok
    /\ Len(errorMessages) = Len(bad)
    /\ \A j \in DOMAIN bad :
          errorMessages[j] =
              IF bad[j] \notin DOMAIN expectedStates
              THEN "instance " \o bad[j] \o " not in terraform state"
              ELSE "instance " \o bad[j] \o " not found in AWS"
    /\ Len(ret.reports) + Len(errorMessages) = Len(instanceIDs)
    /\ ret.err = IF Len(bad) > 0
                 THEN NewError(ToString(Len(bad)) \o " instance(s) failed")
                 ELSE NoErr

\* C13: batch mode resolves each requested id on its own, in request order: an id
\* not in the baseline is a failure; otherwise an id not in the map returned by
\* GetInstanceStatesBatch is a failure; otherwise it yields exactly one report.
\* Reports plus failures is the number of requested ids, and the error is non-nil
\* exactly when there is a failure, its message stating the failure count.
C13_BatchPerId ==
    BatchRun =>
        BatchOutcomeIs(
            SelectSeq(instanceIDs, LAMBDA id : /\ id \in DOMAIN expectedStates
                                              /\ id \in DOMAIN batch.ret.states),
            SelectSeq(instanceIDs, LAMBDA id : \/ id \notin DOMAIN expectedStates
                                              \/ id \notin DOMAIN batch.ret.states))

\* 1001 ids, the first not in the baseline and not answered by the remote either,
\* the last chunk answered in full: the baseline failure is the one recorded
C13_Witness ==
    /\ BatchRun
    /\ Len(instanceIDs) = maxBatchSize + 1
    /\ instanceIDs[1] \notin DOMAIN expectedStates
    /\ instanceIDs[1] \notin DOMAIN batch.ret.states
    /\ Len(ret.reports) = maxBatchSize
    /\ errorMessages = <<"instance i-1 not in terraform state">>
    /\ ret.err = NewError("1 instance(s) failed")

\* C14: concurrent mode, a requested id that is not in the baseline: its worker
\* emits the 'not in terraform state' error and never enters GetInstanceState (no
\* permit, no remote call); the other ids' reports are still produced.
C14_NotInBaselineNoFetch ==
    /\ \A w \in DOMAIN worker :
          worker[w].id \notin DOMAIN expectedStates =>
              /\ worker[w].pc \in {"start", "done"}
              /\ worker[w].calls = 0
              /\ worker[w].permits = 0
              /\ ~worker[w].out.returned
    /\ stats.getState =
          Cardinality({w \in DOMAIN worker : /\ worker[w].id \in DOMAIN expectedStates
                                             /\ worker[w].pc # "start"})
    /\ ConcurrentRun =>
          \A k \in DOMAIN instanceIDs :
              IF instanceIDs[k] \notin DOMAIN expectedStates
              THEN \E j \in DOMAIN errorMessages :
                      errorMessages[j] = "instance " \o instanceIDs[k]
                                            \o " not in terraform state"
              ELSE FetchedOK(k) => ReportsFor(instanceIDs[k]) >= 1

\* two ids, the one not in the baseline fails without a call, the other is reported
C14_Witness ==
    /\ ConcurrentRun
    /\ Len(instanceIDs) = 2
    /\ instanceIDs[1] \in DOMAIN expectedStates
    /\ instanceIDs[2] \notin DOMAIN expectedStates
    /\ ReportIds = <<instanceIDs[1]>>
    /\ ret.err = NewError("instance " \o instanceIDs[2] \o " not in terraform state")
    /\ stats.getState = 1

\* C15: with an empty requested list DetectDrift processes exactly the ids of the
\* parsed baseline, each once, in whatever order; the mode is chosen from that
\* resolved count.
C15_EmptyListDefaults ==
    (stats.requested = <<>> /\ pc # "start" /\ tf.err = NoErr) =>
        /\ Len(instanceIDs) = Cardinality(DOMAIN tf.states)
        /\ {instanceIDs[k] : k \in DOMAIN instanceIDs} = DOMAIN tf.states
        /\ pc \in {"spawn", "collect"} => Len(instanceIDs) <= 10
        /\ pc \in {"batch", "batchLimiter", "batchCall", "batchResolve"} =>
              Len(instanceIDs) > 10
        /\ ret.returned =>
              IF Len(instanceIDs) > 10
              THEN stats.getBatch = 1 /\ stats.getState = 0
              ELSE stats.getBatch = 0 /\ stats.getState = Len(instanceIDs)

\* nothing requested, 11 ids in the baseline, taken in an order that does not
\* start at the first: one batch call, 11 reports
C15_Witness ==
    /\ stats.requested = <<>>
    /\ ret.returned
    /\ Len(instanceIDs) = 11
    /\ instanceIDs[1] # Id(1)
    /\ stats.getBatch = 1
    /\ Len(ret.reports) = 11
    /\ ret.err = NoErr

\* nothing requested, two ids in the baseline: two workers, two reports
C15_WitnessConcurrent ==
    /\ stats.requested = <<>>
    /\ ret.returned
    /\ Len(instanceIDs) = 2
    /\ stats.getState = 2
    /\ Len(ret.reports) = 2

\* C16: when loading the baseline fails, DetectDrift returns a nil report list and
\* an error wrapping the load failure; no worker is started, neither fetch
\* operation is called, no remote call is made and nothing is compared.
C16_ParseFailureFatal ==
    (tf.err # NoErr /\ pc # "start") =>
        /\ pc = "done"
        /\ ret.returned
        /\ ret.nilReports
        /\ ret.reports = <<>>
        /\ ret.err = WrapError("failed to parse terraform state: ", tf.err)
        /\ ErrorString(ret.err) =
              "failed to parse terraform state: " \o ErrorString(tf.err)
        /\ stats.getState = 0
        /\ stats.getBatch = 0
        /\ stats.describes = 0
        /\ worker = <<>>
        /\ results = <<>>
        /\ reports = <<>>

\* two ids requested, the state file cannot be read
C16_Witness ==
    /\ tf.err = ParseFailure
    /\ Len(stats.requested) = 2
    /\ ret.returned
    /\ ret.nilReports
    /\ ret.err.kind = "wrapError"

\* the requested ids that failed in a concurrent run, and those of them whose
\* fetch failed with an error of the authentication class
FailedIds == {k \in DOMAIN instanceIDs : ~FetchedOK(k)}

AuthFailedIds ==
    {k \in FailedIds : /\ worker[k].out.returned
                       /\ worker[k].out.err.kind = "EC2Error"
                       /\ worker[k].out.err.ErrorType = ErrorTypeAuthentication}

CountMessage(n) == ToString(n) \o " instance(s) failed"

CountAndAuthMessage(n, a) ==
    ToString(n) \o " instance(s) failed (" \o ToString(a) \o " authentication errors)"

\* C17 as stated: concurrent mode, two or more requested ids failed: the message
\* of the aggregate error states the number of failed ids and how many of them
\* were authentication-class failures.
C17_AlwaysStatesAuthCount ==
    (ConcurrentRun /\ Cardinality(FailedIds) >= 2) =>
        ret.err = NewError(CountAndAuthMessage(Cardinality(FailedIds),
                                               Cardinality(AuthFailedIds)))

\* C17 amended: concurrent mode, two or more requested ids failed: the message
\* states the number of failed ids, and states how many of them were
\* authentication-class failures when at least one was; with none it is the count
\* alone.
C17_MultiFailureSummary ==
    (ConcurrentRun /\ Cardinality(FailedIds) >= 2) =>
        /\ authErrors = Cardinality(AuthFailedIds)
        /\ ret.err = NewError(IF Cardinality(AuthFailedIds) > 0
                              THEN CountAndAuthMessage(Cardinality(FailedIds),
                                                       Cardinality(AuthFailedIds))
                              ELSE CountMessage(Cardinality(FailedIds)))

\* two ids failed, one of them on its credentials, the other for being absent from
\* the baseline
C17_Witness ==
    /\ ConcurrentRun
    /\ Cardinality(FailedIds) = 2
    /\ Cardinality(AuthFailedIds) = 1
    /\ ret.err = NewError("2 instance(s) failed (1 authentication errors)")

\* m is a message that gives n as the count of failed ids
IsCountMessage(m, n) ==
    \/ m = CountMessage(n)
    \/ \E a \in 1..n : m = CountAndAuthMessage(n, a)

\* the aggregate error for the failure messages msgs: the cause itself for one
\* failure, a count for several
AggregateOf(msgs) ==
    /\ Len(msgs) = 0 => ret.err = NoErr
    /\ Len(msgs) = 1 => ret.err = NewError(msgs[1])
    /\ Len(msgs) >= 2 => /\ ret.err.kind = "errorString"
                         /\ IsCountMessage(ret.err.msg, Len(msgs))

\* the aggregate error of a concurrent run
ConcurrentAggregate == ConcurrentRun => AggregateOf(errorMessages)

\* the aggregate error of a batch run
BatchAggregate == BatchRun => AggregateOf(errorMessages)

\* C18: in either mode DetectDrift returns one aggregate error, whose message is a
\* count when several ids fail and the failing id's own cause, verbatim, when
\* exactly one id fails.
C18_AggregateMessage == ConcurrentAggregate /\ BatchAggregate

----------------------------------------------------------------------------
(* The attribute comparator (models.AttributeComparator) *)

DriftTypeValueMismatch == "VALUE_MISMATCH"
DriftTypeMissingInstance == "MISSING_IN_INSTANCE"
DriftTypeExtraInInstance == "EXTRA_IN_INSTANCE"
DriftTypeMissingInTerraform == "MISSING_IN_TERRAFORM"

\* the characters of the modelled strings, in byte order
CHARS == "-0123456789" \o UPPER \o LOWER

CharRank(c) == CHOOSE i \in 1..Len(CHARS) : SubSeq(CHARS, i, i) = c

\* a < b for Go strings: bytewise lexicographic
RECURSIVE StrLess(_, _)
StrLess(a, b) ==
    IF Len(b) = 0 THEN FALSE
    ELSE IF Len(a) = 0 THEN TRUE
    ELSE IF SubSeq(a, 1, 1) = SubSeq(b, 1, 1)
    THEN StrLess(SubSeq(a, 2, Len(a)), SubSeq(b, 2, Len(b)))
    ELSE CharRank(SubSeq(a, 1, 1)) < CharRank(SubSeq(b, 1, 1))

\* x put at its place in the ascending list l
RECURSIVE InsertSorted(_, _)
InsertSorted(x, l) ==
    IF Len(l) = 0 THEN <<x>>
    ELSE IF StrLess(Head(l), x) THEN <<Head(l)>> \o InsertSorted(x, Tail(l))
    ELSE <<x>> \o l

\* sort.Strings on a copy of l
RECURSIVE SortStrings(_)
SortStrings(l) ==
    IF Len(l) = 0 THEN <<>> ELSE InsertSorted(Head(l), SortStrings(Tail(l)))

\* the values of a list as a set
Values(l) == {l[i] : i \in DOMAIN l}

\* equal lengths and no value of actual outside expected: a comparison as sets
compareStringSlicesAsSets(expected, actual) ==
    /\ Len(expected) = Len(actual)
    /\ \A i \in DOMAIN actual : actual[i] \in Values(expected)

\* models.go:299-324
compareStringSlices(expected, actual) ==
    IF Len(expected) # Len(actual) THEN FALSE
    ELSE IF Len(expected) = 0 THEN TRUE
    ELSE LET expSorted == SortStrings(expected)
             actSorted == SortStrings(actual)
         IN  \A i \in DOMAIN expSorted : expSorted[i] = actSorted[i]

\* m[k] of a Go map[string]string: the zero value for a key that is not there
MapIndex(m, k) == IF k \in DOMAIN m THEN m[k] ELSE ""

\* models.go:326-338
compareMaps(expected, actual) ==
    IF Cardinality(DOMAIN expected) # Cardinality(DOMAIN actual) THEN FALSE
    ELSE \A k \in DOMAIN expected : MapIndex(actual, k) = expected[k]

\* interface{} values: nil, or a value with its dynamic type
NilValue == [type |-> "nil"]

Value(type, v) == [type |-> type, v |-> v]

\* models.go:21-31: the fields of a snapshot
Fields ==
    {"InstanceID", "InstanceType", "AvailabilityZone", "SecurityGroups", "Tags", "SubnetID",
     "ImageID", "KeyName", "Monitoring"}

FieldType(attr) ==
    CASE attr = "SecurityGroups" -> "[]string"
      [] attr = "Tags" -> "map[string]string"
      [] attr = "Monitoring" -> "bool"
      [] OTHER -> "string"

\* an accessor that answers a name that is no field with the instance id
getAttributeValueOrID(attr, state) ==
    IF attr \notin Fields THEN Value("string", state.InstanceID)
    ELSE Value(FieldType(attr), state[attr])

\* an accessor that answers nil for a field holding no list or no map
getAttributeValueNilWhenEmpty(attr, state) ==
    IF attr \notin Fields THEN NilValue
    ELSE IF FieldType(attr) \in {"[]string", "map[string]string"} /\ DOMAIN state[attr] = {}
    THEN NilValue
    ELSE Value(FieldType(attr), state[attr])

\* models.go:259-271: the field by its name, nil for a name that is no field
getAttributeValue(attr, state) ==
    IF attr \notin Fields THEN NilValue ELSE Value(FieldType(attr), state[attr])

\* an equality that only tells a value from no value
areEqualWhenBothSet(expected, actual) ==
    (expected = NilValue) <=> (actual = NilValue)

\* models.go:273-297
areEqual(expected, actual) ==
    IF expected = NilValue /\ actual = NilValue THEN TRUE
    ELSE IF expected = NilValue \/ actual = NilValue THEN FALSE
    ELSE IF expected.type = "[]string"
    THEN IF actual.type # "[]string" THEN FALSE
         ELSE compareStringSlices(expected.v, actual.v)
    ELSE IF expected.type = "map[string]string"
    THEN IF actual.type # "map[string]string" THEN FALSE
         ELSE compareMaps(expected.v, actual.v)
    ELSE expected = actual

\* fmt's %v of a []string
RECURSIVE JoinStrings(_)
JoinStrings(l) ==
    IF Len(l) = 0 THEN ""
    ELSE IF Len(l) = 1 THEN l[1]
    ELSE l[1] \o " " \o JoinStrings(Tail(l))

FormatStrings(l) == "[" \o JoinStrings(l) \o "]"

Drift(type, details) == [DriftType |-> type, Details |-> details]

\* an analysis that does not look at the values
analyzeSliceDriftWithoutKinds(expected, actual) == {Drift(DriftTypeValueMismatch, "")}

\* an analysis that takes a longer list with the same values for a list with
\* missing or extra values
analyzeSliceDriftByLength(expected, actual) ==
    IF Values(expected) # Values(actual) THEN {Drift(DriftTypeValueMismatch, "")}
    ELSE IF Len(expected) > Len(actual) THEN {Drift(DriftTypeMissingInstance, "")}
    ELSE IF Len(actual) > Len(expected) THEN {Drift(DriftTypeExtraInInstance, "")}
    ELSE {Drift(DriftTypeValueMismatch, "")}

\* models.go:174-212; the two lists are filled by ranging over maps, in any order
analyzeSliceDrift(expected, actual) ==
    LET missing == Values(expected) \ Values(actual)
        extra == Values(actual) \ Values(expected)
    IN  IF missing # {} /\ extra = {}
        THEN {Drift(DriftTypeMissingInstance, "missing values: " \o FormatStrings(m)) :
                 m \in AllOrders(missing)}
        ELSE IF extra # {} /\ missing = {}
        THEN {Drift(DriftTypeExtraInInstance, "extra values: " \o FormatStrings(e)) :
                 e \in AllOrders(extra)}
        ELSE IF missing # {} /\ extra # {}
        THEN {Drift(DriftTypeValueMismatch,
                    "missing: " \o FormatStrings(m) \o ", extra: " \o FormatStrings(e)) :
                 m \in AllOrders(missing), e \in AllOrders(extra)}
        ELSE {Drift(DriftTypeValueMismatch, "")}

\* models.go:238-255: the details of a map drift that is not of one kind only
MapDetails(m, e, d) ==
    LET d1 == IF Len(m) > 0 THEN "missing keys: " \o FormatStrings(m) ELSE ""
        d2 == IF Len(e) > 0
              THEN d1 \o (IF d1 # "" THEN ", " ELSE "") \o "extra keys: " \o FormatStrings(e)
              ELSE d1
    IN  IF Len(d) > 0
        THEN d2 \o (IF d2 # "" THEN ", " ELSE "") \o "different values: "
                \o FormatStrings(d)
        ELSE d2

\* models.go:214-257; the three lists are filled by ranging over maps, in any order
analyzeMapDrift(expected, actual) ==
    LET missingKeys == DOMAIN expected \ DOMAIN actual
        differentValues == {k \in DOMAIN expected \cap DOMAIN actual :
                               expected[k] # actual[k]}
        extraKeys == DOMAIN actual \ DOMAIN expected
    IN  IF missingKeys # {} /\ extraKeys = {} /\ differentValues = {}
        THEN {Drift(DriftTypeMissingInstance, "missing keys: " \o FormatStrings(m)) :
                 m \in AllOrders(missingKeys)}
        ELSE IF extraKeys # {} /\ missingKeys = {} /\ differentValues = {}
        THEN {Drift(DriftTypeExtraInInstance, "extra keys: " \o FormatStrings(e)) :
                 e \in AllOrders(extraKeys)}
        ELSE {Drift(DriftTypeValueMismatch, MapDetails(m, e, d)) :
                 m \in AllOrders(missingKeys), e \in AllOrders(extraKeys),
                 d \in AllOrders(differentValues)}

\* models.go:146-172
determineDriftType(expected, actual) ==
    IF expected = NilValue /\ actual # NilValue
    THEN {Drift(DriftTypeMissingInTerraform,
                "attribute present in instance but not in terraform")}
    ELSE IF expected # NilValue /\ actual = NilValue
    THEN {Drift(DriftTypeMissingInstance,
                "attribute present in terraform but not in instance")}
    ELSE IF expected.type = "[]string"
    THEN IF actual.type # "[]string"
         THEN {Drift(DriftTypeValueMismatch, "type mismatch")}
         ELSE analyzeSliceDrift(expected.v, actual.v)
    ELSE IF expected.type = "map[string]string"
    THEN IF actual.type # "map[string]string"
         THEN {Drift(DriftTypeValueMismatch, "type mismatch")}
         ELSE analyzeMapDrift(expected.v, actual.v)
    ELSE {Drift(DriftTypeValueMismatch, "")}

\* an append that leaves the flag as it was
AddDriftKeepingFlag(report, attr, expected, actual, drift) ==
    [report EXCEPT
        !.Drifts = Append(@, [AttributeName |-> attr, ExpectedValue |-> expected,
                              ActualValue |-> actual, DriftType |-> drift.DriftType,
                              Details |-> drift.Details])]

\* models.go:51-70: AddDrift and AddDriftWithDetails
AddDrift(report, attr, expected, actual, drift) ==
    [report EXCEPT
        !.Drifts = Append(@, [AttributeName |-> attr, ExpectedValue |-> expected,
                              ActualValue |-> actual, DriftType |-> drift.DriftType,
                              Details |-> drift.Details]),
        !.HasDrift = TRUE]

\* models.go:124-144: the reports compareAttribute can leave
compareAttribute(attr, expected, actual, report) ==
    LET expectedVal == getAttributeValue(attr, expected)
        actualVal == getAttributeValue(attr, actual)
    IN  IF ~areEqual(expectedVal, actualVal)
        THEN {AddDrift(report, attr, expectedVal, actualVal, d) :
                 d \in determineDriftType(expectedVal, actualVal)}
        ELSE {report}

----------------------------------------------------------------------------
(* One CompareAttributes call, on inputs drawn from small sets *)

GroupNames == {"sg-1", "sg-2", "sg-10"}

TagKeys == {"Name", "Env"}

TagValues == {"", "web"}

GroupLists == SeqsUpTo(GroupNames, MaxGroups)

TagMaps == UNION {[K -> TagValues] : K \in SUBSET TagKeys}

\* a snapshot with the given security groups and tags
InstanceState(id, groups, tags) ==
    [InstanceID |-> id, InstanceType |-> "t3.micro", AvailabilityZone |-> "",
     SecurityGroups |-> groups, Tags |-> tags, SubnetID |-> "", ImageID |-> "",
     KeyName |-> "", Monitoring |-> FALSE]

\* the snapshot with another instance type and monitoring flag
WithScalars(state, type, monitoring) ==
    [state EXCEPT !.InstanceType = type, !.Monitoring = monitoring]

InstanceTypes == {"t3.micro", "t3.large", ""}

\* two snapshots that differ at most in their security groups
GroupInputs ==
    {[expected |-> InstanceState("", e, <<>>), actual |-> InstanceState("i-123", a, <<>>),
      attrs |-> l] :
        e \in GroupLists, a \in GroupLists,
        l \in {<<"SecurityGroups">>, <<"NoSuchField", "SecurityGroups">>}}

\* two snapshots that differ at most in their tags
TagInputs ==
    {[expected |-> InstanceState("", <<>>, e), actual |-> InstanceState("i-123", <<>>, a),
      attrs |-> l] :
        e \in TagMaps, a \in TagMaps,
        l \in {<<"Tags">>, <<"InstanceType", "Tags">>}}

\* two snapshots that differ at most in their instance type and monitoring flag
ScalarInputs ==
    {[expected |-> WithScalars(InstanceState("", <<>>, <<>>), te, me),
      actual |-> WithScalars(InstanceState("i-123", <<>>, <<>>), ta, ma),
      attrs |-> l] :
        te \in InstanceTypes, ta \in InstanceTypes, me \in BOOLEAN, ma \in BOOLEAN,
        l \in {<<"InstanceType">>, <<"Monitoring">>, <<"Monitoring", "InstanceType">>}}

\* attribute lists with names that are no field of a snapshot
UnknownLists ==
    {<<"DoesNotExist">>, <<"tags", "instance_type">>, <<"Tags", "DoesNotExist">>,
     <<"DoesNotExist", "InstanceType", "tags", "Tags">>}

\* two snapshots that differ at most in their tags and instance type, compared on
\* lists with unrecognized names
UnknownInputs ==
    {[expected |-> WithScalars(InstanceState("", <<>>, e), te, FALSE),
      actual |-> WithScalars(InstanceState("i-123", <<>>, a), ta, FALSE),
      attrs |-> l] :
        e \in TagMaps, a \in TagMaps, te \in {"t3.micro"}, ta \in {"t3.micro", "t3.large"},
        l \in UnknownLists}

CompareInputs == GroupInputs \cup TagInputs \cup ScalarInputs \cup UnknownInputs

\* the orchestrator is not running
OrchestratorIdle ==
    /\ pc = "idle"
    /\ tf = [states |-> StatesOf({}), err |-> NoErr]
    /\ instanceIDs = <<>>
    /\ expectedStates = StatesOf({})
    /\ worker = <<>>
    /\ wg = 0
    /\ results = <<>>
    /\ closed = FALSE
    /\ reports = <<>>
    /\ errorMessages = <<>>
    /\ authErrors = 0
    /\ batch = [i |-> 0, states |-> StatesOf({}), allErrors |-> <<>>,
                ret |-> [states |-> StatesOf({}), err |-> NoErr, returned |-> FALSE]]
    /\ ret = NoRet
    /\ tickAvail = FALSE
    /\ ctx = "background"
    /\ faultsLeft = 0
    /\ stats = [ticks |-> 0, describes |-> 0, getState |-> 0, getBatch |-> 0,
                batchPermits |-> 0, chunks |-> <<>>, requested |-> <<>>]

\* no report has been made
NoReport == [InstanceID |-> "", HasDrift |-> FALSE, Drifts |-> <<>>, CheckedAttrs |-> <<>>]

CompareInit ==
    /\ OrchestratorIdle
    /\ cls = NoClassify
    /\ \E in \in CompareInputs :
          cmp = [pc |-> "call", expected |-> in.expected, actual |-> in.actual,
                 attrs |-> in.attrs, i |-> 0, report |-> NoReport,
                 run |-> 1, first |-> NoReport]

OrchestratorUnchanged ==
    UNCHANGED <<cls, pc, tf, instanceIDs, expectedStates, worker, wg, results, closed, reports,
                errorMessages, authErrors, batch, ret, tickAvail, ctx, faultsLeft, stats>>

\* models.go:99-104: the report is created
CompareStart ==
    /\ cmp.pc = "call"
    /\ cmp' = [cmp EXCEPT !.pc = "loop", !.i = 1,
                          !.report = [InstanceID |-> cmp.actual.InstanceID,
                                      HasDrift |-> FALSE, Drifts |-> <<>>,
                                      CheckedAttrs |-> cmp.attrs]]
    /\ OrchestratorUnchanged

\* models.go:106-108: one iteration of the loop over attrs
CompareNextAttribute ==
    /\ cmp.pc = "loop"
    /\ cmp.i <= Len(cmp.attrs)
    /\ \E r \in compareAttribute(cmp.attrs[cmp.i], cmp.expected, cmp.actual, cmp.report) :
          cmp' = [cmp EXCEPT !.report = r, !.i = @ + 1]
    /\ OrchestratorUnchanged

\* models.go:110-121: the report is returned
CompareReturn ==
    /\ cmp.pc = "loop"
    /\ cmp.i > Len(cmp.attrs)
    /\ cmp' = [cmp EXCEPT !.pc = "done"]
    /\ OrchestratorUnchanged

\* the caller keeps the report and calls again with the same arguments
CompareAgain ==
    /\ cmp.pc = "done"
    /\ cmp.run = 1
    /\ cmp' = [cmp EXCEPT !.pc = "call", !.i = 0, !.run = 2, !.first = cmp.report,
                          !.report = NoReport]
    /\ OrchestratorUnchanged

CompareNext ==
    \/ CompareStart
    \/ CompareNextAttribute
    \/ CompareReturn
    \/ CompareAgain

CompareSpec == CompareInit /\ [][CompareNext]_vars

\* the entries of the returned report for the attribute attr
DriftsFor(attr) ==
    SelectSeq(cmp.report.Drifts, LAMBDA d : d.AttributeName = attr)

\* a and b hold every value the same number of times
SameMultiset(a, b) ==
    \A v \in Values(a) \cup Values(b) :
        Cardinality({i \in DOMAIN a : a[i] = v}) = Cardinality({i \in DOMAIN b : b[i] = v})

C20_TagsEqualIffSame ==
    (cmp.pc = "done" /\ cmp.attrs[Len(cmp.attrs)] = "Tags") =>
        (DriftsFor("Tags") = <<>>) <=> (cmp.expected.Tags = cmp.actual.Tags)

\* a CompareAttributes call that had Tags among its attributes has returned
TagsCompared == cmp.pc = "done" /\ \E i \in DOMAIN cmp.attrs : cmp.attrs[i] = "Tags"

\* the keys by which the two tag maps of the call differ
TagsMissing == DOMAIN cmp.expected.Tags \ DOMAIN cmp.actual.Tags

TagsExtra == DOMAIN cmp.actual.Tags \ DOMAIN cmp.expected.Tags

TagsChanged ==
    {k \in DOMAIN cmp.expected.Tags \cap DOMAIN cmp.actual.Tags :
        cmp.expected.Tags[k] # cmp.actual.Tags[k]}

\* the report holds one entry for Tags, of the given kind
TagsEntryIs(kind) ==
    /\ Len(DriftsFor("Tags")) = 1
    /\ DriftsFor("Tags")[1].DriftType = kind
    /\ cmp.report.HasDrift

\* the kind of a Tags entry follows from the keys that differ
TagsKindWhenReported ==
    (TagsCompared /\ DriftsFor("Tags") # <<>>) =>
        TagsEntryIs(IF TagsChanged # {} \/ (TagsMissing # {} /\ TagsExtra # {})
                    THEN DriftTypeValueMismatch
                    ELSE IF TagsMissing # {} THEN DriftTypeMissingInstance
                    ELSE DriftTypeExtraInInstance)

\* C21: CompareAttributes on Tags: a changed value under a key of both maps always
\* gives a VALUE_MISMATCH entry; keys missing from actual and nothing else give the
\* missing kind; keys only in actual and nothing else give the extra kind; any
\* value difference, or missing keys together with extra keys, give VALUE_MISMATCH.
C21_TagDriftKinds ==
    TagsCompared =>
        /\ TagsChanged # {} => TagsEntryIs(DriftTypeValueMismatch)
        /\ (TagsMissing # {} /\ TagsExtra = {} /\ TagsChanged = {})
              => TagsEntryIs(DriftTypeMissingInstance)
        /\ (TagsExtra # {} /\ TagsMissing = {} /\ TagsChanged = {})
              => TagsEntryIs(DriftTypeExtraInInstance)
        /\ (TagsMissing # {} /\ TagsExtra # {}) => TagsEntryIs(DriftTypeValueMismatch)

\* the names of attrs that are fields of a snapshot, in order
Recognized(attrs) == SelectSeq(attrs, LAMBDA a : a \in Fields)

\* the drift lists a loop over attrs can leave, starting from the list drifts
RECURSIVE DriftLists(_, _, _, _)
DriftLists(attrs, expected, actual, drifts) ==
    IF Len(attrs) = 0 THEN {drifts}
    ELSE UNION {DriftLists(Tail(attrs), expected, actual, r.Drifts) :
                   r \in compareAttribute(Head(attrs), expected, actual,
                                          [Drifts |-> drifts, HasDrift |-> FALSE])}

\* C22: a name that is no attribute of the snapshot makes no drift entry: a call
\* with only such names returns HasDrift = false and an empty drift list, and the
\* entries of a call are those of the same call without such names.
C22_UnrecognizedSkipped ==
    cmp.pc = "done" =>
        /\ \A j \in DOMAIN cmp.report.Drifts : cmp.report.Drifts[j].AttributeName \in Fields
        /\ \A a \in Values(cmp.attrs) \ Fields :
              /\ getAttributeValue(a, cmp.expected) = NilValue
              /\ getAttributeValue(a, cmp.actual) = NilValue
              /\ DriftsFor(a) = <<>>
        /\ Recognized(cmp.attrs) = <<>> =>
              ~cmp.report.HasDrift /\ cmp.report.Drifts = <<>>
        /\ cmp.report.Drifts
              \in DriftLists(Recognized(cmp.attrs), cmp.expected, cmp.actual, <<>>)

\* only unrecognized names, one of them "tags" in lower case, on snapshots whose
\* tags differ: no drift
C22_Witness ==
    /\ cmp.pc = "done"
    /\ cmp.attrs = <<"tags", "instance_type">>
    /\ cmp.expected.Tags # cmp.actual.Tags
    /\ cmp.expected.InstanceType # cmp.actual.InstanceType
    /\ ~cmp.report.HasDrift
    /\ cmp.report.Drifts = <<>>

\* unrecognized names around recognized ones that drift: two entries
C22_WitnessMixed ==
    /\ cmp.pc = "done"
    /\ cmp.attrs = <<"DoesNotExist", "InstanceType", "tags", "Tags">>
    /\ Len(cmp.report.Drifts) = 2
    /\ cmp.report.Drifts[1].AttributeName = "InstanceType"
    /\ cmp.report.Drifts[2].AttributeName = "Tags"

\* C23: during and after a CompareAttributes call, that is after any number of
\* AddDrift calls, HasDrift is true exactly when the drift list is not empty; the
\* returned report's CheckedAttrs is the requested list, same names in the same
\* order, with or without drift and whether or not the names are recognized.
C23_FlagAndCheckedAttrs ==
    /\ cmp.pc \in {"loop", "done"} =>
          /\ cmp.report.HasDrift <=> cmp.report.Drifts # <<>>
          /\ cmp.report.CheckedAttrs = cmp.attrs
    /\ cmp.pc = "done" =>
          /\ Len(cmp.report.CheckedAttrs) = Len(cmp.attrs)
          /\ \A i \in DOMAIN cmp.attrs : cmp.report.CheckedAttrs[i] = cmp.attrs[i]
          /\ Len(cmp.report.Drifts) <= Len(Recognized(cmp.attrs))

\* four names requested, two of them unrecognized, two AddDrift calls made: the
\* flag is set and all four names are recorded
C23_Witness ==
    /\ cmp.pc = "done"
    /\ Len(cmp.attrs) = 4
    /\ Len(Recognized(cmp.attrs)) = 2
    /\ Len(cmp.report.Drifts) = 2
    /\ cmp.report.HasDrift
    /\ cmp.report.CheckedAttrs = <<"DoesNotExist", "InstanceType", "tags", "Tags">>

\* names requested of which none is recognized: no drift, all names recorded
C23_WitnessNoDrift ==
    /\ cmp.pc = "done"
    /\ Recognized(cmp.attrs) = <<>>
    /\ ~cmp.report.HasDrift
    /\ cmp.report.CheckedAttrs = <<"tags", "instance_type">>

\* both calls on the triple have returned
ComparedTwice == cmp.pc = "done" /\ cmp.run = 2

\* the report r with its detail strings blanked
WithoutDetails(r) ==
    [r EXCEPT !.Drifts = [j \in DOMAIN r.Drifts |-> [r.Drifts[j] EXCEPT !.Details = ""]]]

\* the two reports agree in everything but, possibly, their detail strings
SameButDetails == ComparedTwice => WithoutDetails(cmp.report) = WithoutDetails(cmp.first)

\* C24: CompareAttributes run twice on the same unchanged (expected, actual, attrs)
\* gives identical reports: the same entries in the same order, with the same
\* drift kinds and the same detail strings.
C24_Idempotent == ComparedTwice => cmp.report = cmp.first

\* the string and bool fields of a snapshot
ScalarFields == {a \in Fields : FieldType(a) \in {"string", "bool"}}

\* the report holds exactly one entry for attr: a VALUE_MISMATCH without details
\* that carries the two values
ScalarEntry(attr) ==
    /\ Len(DriftsFor(attr)) = 1
    /\ DriftsFor(attr)[1].DriftType = DriftTypeValueMismatch
    /\ DriftsFor(attr)[1].Details = ""
    /\ DriftsFor(attr)[1].ExpectedValue.v = cmp.expected[attr]
    /\ DriftsFor(attr)[1].ActualValue.v = cmp.actual[attr]
    /\ cmp.report.HasDrift

\* C25: for a string or bool attribute CompareAttributes makes an entry exactly
\* when the expected and the actual value differ; the entry is one VALUE_MISMATCH
\* with an empty detail string, and HasDrift is set.
C25_ScalarMismatch ==
    cmp.pc = "done" =>
        \A attr \in Values(cmp.attrs) \cap ScalarFields :
            IF cmp.expected[attr] = cmp.actual[attr]
            THEN DriftsFor(attr) = <<>>
            ELSE ScalarEntry(attr)

\* InstanceType t3.micro against t3.large, the only attribute compared: exactly
\* one entry, a VALUE_MISMATCH
C25_Witness ==
    /\ cmp.pc = "done"
    /\ cmp.attrs = <<"InstanceType">>
    /\ cmp.expected.InstanceType = "t3.micro"
    /\ cmp.actual.InstanceType = "t3.large"
    /\ Len(cmp.report.Drifts) = 1
    /\ ScalarEntry("InstanceType")

\* the monitoring flags differ and the instance types do not: one entry
C25_WitnessBool ==
    /\ cmp.pc = "done"
    /\ cmp.attrs = <<"Monitoring", "InstanceType">>
    /\ cmp.expected.Monitoring # cmp.actual.Monitoring
    /\ Len(cmp.report.Drifts) = 1
    /\ ScalarEntry("Monitoring")

\* once the context is done no step makes a describe call
NoCallAfterCancel == [][CtxDone => stats'.describes = stats.describes]_vars

\* the same for the fetches of the concurrent mode only, and of the batch mode only
NoSingleCallAfterCancel ==
    [][(CtxDone /\ stats.getBatch = 0) => stats'.describes = stats.describes]_vars

NoChunkCallAfterCancel ==
    [][(CtxDone /\ stats.getBatch = 1) => stats'.describes = stats.describes]_vars

\* a run that was cancelled returns the report of every id whose snapshot the
\* fetcher delivered, so also of those that completed before the cancellation
CompletedStillReturned ==
    (ret.returned /\ CtxDone /\ tf.err = NoErr) =>
        IF Len(instanceIDs) <= 10
        THEN \A k \in DOMAIN instanceIDs : FetchedOK(k) => ReportsFor(instanceIDs[k]) >= 1
        ELSE ReportIds = SelectSeq(instanceIDs,
                            LAMBDA id : /\ id \in DOMAIN expectedStates
                                        /\ id \in DOMAIN batch.ret.states)

\* C26: the cancellation of the caller's context reaches every fetch in flight,
\* single-instance and batch alike: once it has fired no fetch starts a describe
\* call, and the reports of the ids that had completed are still returned.
C26_CancellationPropagates == NoCallAfterCancel /\ []CompletedStillReturned

\* the error of fetchInstanceState for an answer without the instance
NotFoundInAWS(id) ==
    EC2Error(id, NewError("instance not found in AWS"), FALSE, ErrorTypeNotFound)

\* the answers of the remote that carry no error and no instance
EmptyAnswers == {o \in RemoteOutcomes \ Msgs : NoInstanceIn(Reservations(Id(1), o))}

\* fetchInstanceState turns each of them, for every id fetched, into no snapshot
\* and the NOT_FOUND error
EmptyAnswerIsNotFound ==
    \A o \in EmptyAnswers : \A id \in SmallIds :
        fetchInstanceState(id, o) = [state |-> NilState, err |-> NotFoundInAWS(id)]

\* C27: the describe call succeeds with no reservation, or with a first
\* reservation of no instance: GetInstanceState returns no snapshot and a
\* non-retryable NOT_FOUND error ('not found in AWS'), and that call was its last;
\* answered so at its first attempt it has made exactly one remote call and has
\* not waited for a retry.
C27_EmptyAnswerNotFound ==
    /\ EmptyAnswers = {"noReservation", "noInstance"}
    /\ EmptyAnswerIsNotFound
    /\ \A w \in DOMAIN worker :
          worker[w].lastErr = NotFoundInAWS(worker[w].id) =>
              /\ worker[w].pc = "done"
              /\ worker[w].out.returned
              /\ worker[w].out.state = NilState
              /\ worker[w].out.err = NotFoundInAWS(worker[w].id)
              /\ Contains(ErrorString(worker[w].out.err), "not found in AWS")
              /\ worker[w].calls = Len(worker[w].failures)
              /\ worker[w].permits = worker[w].calls
              /\ Len(worker[w].waits) = worker[w].calls - 1
              /\ worker[w].failures = <<ErrorTypeNotFound>> =>
                    worker[w].calls = 1 /\ worker[w].waits = <<>>

\* a fetch whose first call was answered without the instance
C27_Witness ==
    \E w \in DOMAIN worker :
        /\ worker[w].lastErr = NotFoundInAWS(worker[w].id)
        /\ worker[w].out.returned
        /\ worker[w].out.err.ErrorType = ErrorTypeNotFound
        /\ ~worker[w].out.err.IsRetryable
        /\ worker[w].calls = 1
        /\ stats.describes = 1

----------------------------------------------------------------------------
(* DetectSingleDrift: one id, fetched by the calling goroutine itself *)

\* one id, every baseline, a remote that may fail every attempt
SingleScenarios ==
    {[ids |-> <<id>>, tf |-> t, faults |-> MaxFaults, ctx |-> c] :
        id \in SmallIds, t \in Baselines, c \in {"active", "background"}}

SingleInit ==
    \E sc \in SingleScenarios :
        /\ pc = "singleStart"
        /\ tf = sc.tf
        /\ instanceIDs = sc.ids
        /\ expectedStates = StatesOf({})
        /\ worker = <<>>
        /\ wg = 0
        /\ results = <<>>
        /\ closed = FALSE
        /\ reports = <<>>
        /\ errorMessages = <<>>
        /\ authErrors = 0
        /\ batch = [i |-> 0, states |-> StatesOf({}), allErrors |-> <<>>,
                    ret |-> [states |-> StatesOf({}), err |-> NoErr, returned |-> FALSE]]
        /\ ret = NoRet
        /\ tickAvail = FALSE
        /\ ctx = sc.ctx
        /\ faultsLeft = sc.faults
        /\ cmp = NoCompare
        /\ cls = NoClassify
        /\ stats = [ticks |-> 0, describes |-> 0, getState |-> 0, getBatch |-> 0,
                    batchPermits |-> 0, chunks |-> <<>>, requested |-> sc.ids]

\* DetectSingleDrift returns a nil report and err
SingleFailure(err) ==
    [reports |-> <<>>, nilReports |-> TRUE, err |-> err, returned |-> TRUE]

\* service.go:243-256: the baseline is parsed, the id looked up, and
\* GetInstanceState entered
DetectSingleDrift ==
    /\ pc = "singleStart"
    /\ LET instanceID == instanceIDs[1]
       IN  IF tf.err # NoErr
           THEN /\ ret' = SingleFailure(WrapError("failed to parse terraform state: ",
                                                  tf.err))
                /\ pc' = "done"
                /\ UNCHANGED <<expectedStates, worker, stats>>
           ELSE IF instanceID \notin DOMAIN tf.states
           THEN /\ ret' = SingleFailure(NewError("instance " \o instanceID
                                            \o " not found in terraform state"))
                /\ pc' = "done"
                /\ expectedStates' = tf.states
                /\ UNCHANGED <<worker, stats>>
           ELSE /\ expectedStates' = tf.states
                /\ worker' = <<[NewWorker(instanceID) EXCEPT !.pc = "limiter"]>>
                /\ stats' = [stats EXCEPT !.getState = @ + 1]
                /\ pc' = "single"
                /\ UNCHANGED ret
    /\ UNCHANGED <<cls, cmp, tf, instanceIDs, wg, results, closed, reports, errorMessages,
                   authErrors, batch, tickAvail, ctx, faultsLeft>>

\* a fetch error handed on inside a new error
SingleResultWrapped(out, expected) ==
    IF out.err # NoErr
    THEN SingleFailure(WrapError("failed to fetch instance state: ", out.err))
    ELSE [reports |-> <<CompareAttributes(expected, out.state)>>, nilReports |-> FALSE,
          err |-> NoErr, returned |-> TRUE]

\* service.go:257-261: what DetectSingleDrift returns once GetInstanceState
\* returned out
SingleResult(out, expected) ==
    IF out.err # NoErr
    THEN SingleFailure(out.err)
    ELSE [reports |-> <<CompareAttributes(expected, out.state)>>, nilReports |-> FALSE,
          err |-> NoErr, returned |-> TRUE]

\* service.go:256-261: GetInstanceState has returned
SingleReturn ==
    /\ pc = "single"
    /\ worker[1].out.returned
    /\ ret' = SingleResult(worker[1].out, expectedStates[instanceIDs[1]])
    /\ reports' = ret'.reports
    /\ pc' = "done"
    /\ UNCHANGED <<cls, cmp, tf, instanceIDs, expectedStates, worker, wg, results, closed,
                   errorMessages, authErrors, batch, tickAvail, ctx, faultsLeft, stats>>

SingleNext ==
    \/ DetectSingleDrift
    \/ Tick
    \/ Cancel
    \/ \E w \in DOMAIN worker : WorkerBackoffCancelled(w)
    \/ \E w \in DOMAIN worker : WorkerBackoffElapsed(w)
    \/ \E w \in DOMAIN worker : WorkerLimiter(w)
    \/ \E w \in DOMAIN worker : WorkerCall(w)
    \/ SingleReturn

SingleSpec == SingleInit /\ [][SingleNext]_vars

\* C28: DetectSingleDrift returns either a report or an error, never both and
\* never neither. A report comes only when the baseline loaded, the id is in it
\* and the fetch succeeded. For an id that is not in the baseline it returns a nil
\* report and an error without calling the fetcher or the comparator; a fetch
\* error is returned as it is, with a nil report.
C28_SingleAllOrNothing ==
    /\ (pc # "singleStart" /\ tf.err = NoErr /\ instanceIDs[1] \notin DOMAIN tf.states) =>
          /\ pc = "done"
          /\ ret = SingleFailure(NewError("instance " \o instanceIDs[1]
                                     \o " not found in terraform state"))
          /\ worker = <<>>
          /\ stats.getState = 0
          /\ stats.describes = 0
          /\ reports = <<>>
    /\ ret.returned =>
          /\ (ret.err = NoErr) <=> (Len(ret.reports) = 1)
          /\ (ret.err # NoErr) <=> (ret.reports = <<>> /\ ret.nilReports)
          /\ Len(ret.reports) = 1 =>
                /\ tf.err = NoErr
                /\ instanceIDs[1] \in DOMAIN tf.states
                /\ worker[1].out.returned
                /\ worker[1].out.err = NoErr
                /\ ret.reports[1].InstanceID = instanceIDs[1]
          /\ tf.err # NoErr =>
                /\ ret = SingleFailure(WrapError("failed to parse terraform state: ",
                                                 tf.err))
                /\ worker = <<>>
          /\ (worker # <<>> /\ worker[1].out.err # NoErr) =>
                ret = SingleFailure(worker[1].out.err)

\* the id is not in the baseline that loaded: an error and no call
C28_Witness ==
    /\ pc = "done"
    /\ ret.returned
    /\ tf.err = NoErr
    /\ DOMAIN tf.states # {}
    /\ instanceIDs[1] \notin DOMAIN tf.states
    /\ ret.nilReports
    /\ ret.err # NoErr
    /\ stats.getState = 0

\* the fetch failed after a retry: its error is what DetectSingleDrift returns
C28_WitnessFetchError ==
    /\ pc = "done"
    /\ ret.returned
    /\ worker # <<>>
    /\ worker[1].calls = 2
    /\ worker[1].out.err.kind = "EC2Error"
    /\ ret.err = worker[1].out.err
    /\ ret.nilReports

\* the fetch succeeded: a report and no error
C28_WitnessReport ==
    /\ pc = "done"
    /\ ret.returned
    /\ Len(ret.reports) = 1
    /\ ret.err = NoErr

----------------------------------------------------------------------------
(* One classifyError call, on messages drawn from a set *)

ClassifyInit ==
    /\ OrchestratorIdle
    /\ cmp = NoCompare
    /\ \E m \in Msgs \cup LexicalMsgs, id \in {Id(1), "batch"} :
          cls = [pc |-> "call", instanceID |-> id, err |-> NewError(m), out |-> NoErr]

\* aws.go:400-445
Classify ==
    /\ cls.pc = "call"
    /\ cls' = [cls EXCEPT !.pc = "done", !.out = classifyError(cls.instanceID, cls.err)]
    /\ UNCHANGED <<cmp, pc, tf, instanceIDs, expectedStates, worker, wg, results, closed,
                   reports, errorMessages, authErrors, batch, ret, tickAvail, ctx,
                   faultsLeft, stats>>

ClassifyNext == Classify

ClassifySpec == ClassifyInit /\ [][ClassifyNext]_vars

\* the classified message holds the phrase, whatever the case of its letters
HasPhrase(ph) == Contains(ToLower(ErrorString(cls.err)), ph)

\* the class and the retry flag classifyError gave
ClassifiedAs(type, retryable) ==
    /\ cls.out.kind = "EC2Error"
    /\ cls.out.ErrorType = type
    /\ cls.out.IsRetryable = retryable

\* of the four short phrases the message holds ph only
OnlyShortPhrase(ph) ==
    HasPhrase(ph) /\ \A other \in ShortPhrases \ {ph} : ~HasPhrase(other)

\* a message with a phrase classifyError looks for is never UNKNOWN
KnownPhraseClassified ==
    (cls.pc = "done" /\ \E ph \in KnownPhrases : HasPhrase(ph)) =>
        cls.out.ErrorType # ErrorTypeUnknown

\* C29: a failure message that holds, in any case, 'throttl', 'auth', 'not found'
\* or 'timeout' is classified THROTTLING (retryable), AUTHENTICATION (not
\* retryable), NOT_FOUND (not retryable) or NETWORK (retryable) respectively, and
\* never UNKNOWN.
C29_LexicalSignal ==
    cls.pc = "done" =>
        /\ OnlyShortPhrase("throttl") => ClassifiedAs(ErrorTypeThrottling, TRUE)
        /\ OnlyShortPhrase("auth") => ClassifiedAs(ErrorTypeAuthentication, FALSE)
        /\ OnlyShortPhrase("not found") => ClassifiedAs(ErrorTypeNotFound, FALSE)
        /\ OnlyShortPhrase("timeout") => ClassifiedAs(ErrorTypeNetwork, TRUE)
        /\ (\E ph \in ShortPhrases : HasPhrase(ph)) => cls.out.ErrorType # ErrorTypeUnknown

----------------------------------------------------------------------------

\* the k-th requested id is in the baseline and its fetch returned an error
FetchFailed(k) ==
    /\ instanceIDs[k] \in DOMAIN expectedStates
    /\ worker[k].out.returned
    /\ worker[k].out.err # NoErr

\* DetectDrift returned for two requested ids
TwoRequested == ConcurrentRun /\ Len(stats.requested) = 2

\* of the two, the fetch of the j-th succeeded and that of the k-th failed
OneOfTwoFailed(j, k) ==
    /\ j # k
    /\ FetchedOK(j)
    /\ FetchFailed(k)

----------------------------------------------------------------------------
(* Mode selection at the threshold (C31) *)

\* the branch of service.go:70-77 an invocation has taken, "none" before it
ModeTaken ==
    IF pc \in {"spawn", "collect"} THEN "concurrent"
    ELSE IF pc \in {"batch", "batchLimiter", "batchCall", "batchResolve"} THEN "batch"
    ELSE IF pc = "done" /\ ret.returned /\ tf.err = NoErr
         THEN (IF stats.getBatch > 0 THEN "batch" ELSE "concurrent")
    ELSE "none"

\* C31 as stated: with the threshold 10, a resolved id list shorter than the
\* threshold is handled in concurrent mode and a list of 10 or more ids in batch
\* mode.
C31_BatchAtOrAboveThreshold ==
    ModeTaken # "none" =>
        ModeTaken = IF Len(instanceIDs) < BatchThreshold THEN "concurrent" ELSE "batch"

\* C31 amended: a resolved id list of at most 10 ids (the threshold included) is
\* handled in concurrent mode, a list of 11 or more ids in batch mode.
C31_BatchAboveThreshold ==
    ModeTaken # "none" =>
        /\ Len(instanceIDs) <= BatchThreshold => ModeTaken = "concurrent" /\ stats.getBatch = 0
        /\ Len(instanceIDs) >= BatchThreshold + 1 => ModeTaken = "batch" /\ worker = <<>>

\* exactly 10 ids were handled by the concurrent path, each accounted for
C31_Witness ==
    /\ pc = "done"
    /\ Len(instanceIDs) = BatchThreshold
    /\ ModeTaken = "concurrent"
    /\ Len(ret.reports) + Len(errorMessages) = BatchThreshold

----------------------------------------------------------------------------
(* The backoff schedule of GetInstanceState (C32) *)

\* no wait precedes the first remote call of a fetch, and at most 5 waits are made
NoWaitBeforeFirstAttempt ==
    \A w \in DOMAIN worker :
        /\ worker[w].calls = 0 => worker[w].waits = <<>>
        /\ Len(worker[w].waits) <= worker[w].calls
        /\ Len(worker[w].waits) <= maxRetries

\* neither the backoff variable nor a wait made exceeds maxBackoff
BackoffCapped ==
    \A w \in DOMAIN worker :
        /\ worker[w].backoff <= maxBackoff
        /\ \A k \in DOMAIN worker[w].waits : worker[w].waits[k] <= maxBackoff

\* the wait before retry k is initialBackoff doubled k-1 times, capped
WaitsFromInitialBackoff ==
    \A w \in DOMAIN worker :
        \A k \in DOMAIN worker[w].waits :
            worker[w].waits[k] = Min(initialBackoff * Pow2(k - 1), maxBackoff)

\* the wait before retry k is initialBackoff doubled k times, capped
WaitsFromDoubledBackoff ==
    \A w \in DOMAIN worker :
        \A k \in DOMAIN worker[w].waits :
            worker[w].waits[k] = Min(initialBackoff * Pow2(k), maxBackoff)

\* C32: GetInstanceState does not wait before its first attempt; the backoff
\* waited before retry k (k = 1..5) is 1s doubled k-1 times and capped at 32s,
\* that is 1s, 2s, 4s, 8s, 16s; the backoff never exceeds 32s.
C32_BackoffSchedule ==
    /\ NoWaitBeforeFirstAttempt
    /\ WaitsFromInitialBackoff
    /\ BackoffCapped

----------------------------------------------------------------------------
(* The drift kind of an unequal list attribute (C33, C39) *)

\* a CompareAttributes call that had SecurityGroups among its attributes has
\* returned, and the two lists are not equal
GroupsUnequal ==
    /\ cmp.pc = "done"
    /\ \E i \in DOMAIN cmp.attrs : cmp.attrs[i] = "SecurityGroups"
    /\ ~SameMultiset(cmp.expected.SecurityGroups, cmp.actual.SecurityGroups)

\* the values by which the two lists of the call differ, as sets
GroupsMissing == Values(cmp.expected.SecurityGroups) \ Values(cmp.actual.SecurityGroups)

GroupsExtra == Values(cmp.actual.SecurityGroups) \ Values(cmp.expected.SecurityGroups)

\* the ways fmt's %v can list the values of S, each once
Listings(S) == {FormatStrings(l) : l \in AllOrders(S)}

\* the report holds one entry for SecurityGroups, of the given kind and with one of
\* the given detail strings
GroupsEntryIs(kind, details) ==
    /\ Len(DriftsFor("SecurityGroups")) = 1
    /\ DriftsFor("SecurityGroups")[1].DriftType = kind
    /\ DriftsFor("SecurityGroups")[1].Details \in details
    /\ cmp.report.HasDrift

\* C33: for unequal lists the kind follows from missing = expected - actual and
\* extra = actual - expected taken as sets: missing values only give the
\* missing kind and list them, extra values only give the extra kind and list
\* them, both give VALUE_MISMATCH and list both.
C33_ListDriftKinds ==
    GroupsUnequal =>
        /\ (GroupsMissing # {} /\ GroupsExtra = {}) =>
              GroupsEntryIs(DriftTypeMissingInstance,
                            {"missing values: " \o m : m \in Listings(GroupsMissing)})
        /\ (GroupsExtra # {} /\ GroupsMissing = {}) =>
              GroupsEntryIs(DriftTypeExtraInInstance,
                            {"extra values: " \o e : e \in Listings(GroupsExtra)})
        /\ (GroupsMissing # {} /\ GroupsExtra # {}) =>
              GroupsEntryIs(DriftTypeValueMismatch,
                            {"missing: " \o m \o ", extra: " \o e :
                                m \in Listings(GroupsMissing), e \in Listings(GroupsExtra)})

\* one group of the baseline is not on the instance
C33_Witness ==
    /\ GroupsUnequal
    /\ cmp.expected.SecurityGroups = <<"sg-1", "sg-2">>
    /\ cmp.actual.SecurityGroups = <<"sg-1">>
    /\ GroupsEntryIs(DriftTypeMissingInstance, {"missing values: [sg-2]"})

\* one group on the instance is not of the baseline
C33_WitnessExtra ==
    /\ GroupsUnequal
    /\ cmp.expected.SecurityGroups = <<"sg-1">>
    /\ cmp.actual.SecurityGroups = <<"sg-10", "sg-1">>
    /\ GroupsEntryIs(DriftTypeExtraInInstance, {"extra values: [sg-10]"})

\* two groups missing and one extra, listed in one of the orders
C33_WitnessBoth ==
    /\ GroupsUnequal
    /\ cmp.expected.SecurityGroups = <<"sg-1", "sg-2">>
    /\ cmp.actual.SecurityGroups = <<"sg-10">>
    /\ GroupsEntryIs(DriftTypeValueMismatch, {"missing: [sg-2 sg-1], extra: [sg-10]"})

----------------------------------------------------------------------------
(* Result accounting of the concurrent mode (C34) *)

\* the goroutines that have ended
Finished == {w \in DOMAIN worker : worker[w].pc = "done"}

\* the results sent so far: buffered in the channel or received by the collector
Sent == Len(results) + Len(reports) + Len(errorMessages)

\* one result per ended goroutine and none from the others, the wait group counts
\* the goroutines still running, and the buffer of capacity len(instanceIDs) has
\* room for every result
OneResultEach ==
    ModeTaken = "concurrent" =>
        /\ Sent = Cardinality(Finished)
        /\ wg = Len(worker) - Cardinality(Finished)
        /\ Len(worker) <= Len(instanceIDs)
        /\ Len(results) <= Len(instanceIDs)

\* the channel is closed only once every goroutine was started and has ended
ClosedAfterAll ==
    closed =>
        /\ Len(worker) = Len(instanceIDs)
        /\ Finished = DOMAIN worker
        /\ wg = 0

\* the call returned: every result was received, len(instanceIDs) of them
AllReceived ==
    ConcurrentRun =>
        /\ closed
        /\ results = <<>>
        /\ Len(reports) + Len(errorMessages) = Len(instanceIDs)
        /\ ret.reports = reports

\* a goroutine sends at the step it ends, one result, into a buffer that has
\* room and a channel that is open; it takes no step after that
SendStep ==
    \A w \in DOMAIN worker :
        /\ (worker[w].pc # "done" /\ worker'[w].pc = "done") =>
              /\ ~closed
              /\ Len(results) < Len(instanceIDs)
              /\ Len(results') = Len(results) + 1
              /\ SubSeq(results', 1, Len(results)) = results
        /\ worker[w].pc = "done" => worker'[w] = worker[w]

\* nothing is sent on the closed channel, which stays closed
ClosedStaysClosed ==
    closed => closed' /\ Len(results') <= Len(results) /\ worker' = worker

\* C34: concurrent mode, under every interleaving: each worker sends exactly one
\* result and never finds the channel full; the channel is closed once, after all
\* workers have finished, and nothing is sent on it then; the collector receives
\* len(ids) results, so reports plus errors equal the requested ids.
C34_ResultAccounting ==
    /\ [](OneResultEach /\ ClosedAfterAll /\ AllReceived)
    /\ [][SendStep /\ ClosedStaysClosed]_vars

\* ten ids: the call returned with one report and nine errors
C34_Witness ==
    /\ ConcurrentRun
    /\ Len(instanceIDs) = BatchThreshold
    /\ Len(reports) = 1
    /\ Len(errorMessages) = BatchThreshold - 1
    /\ closed

\* a result has been received while another worker is still fetching
C34_WitnessInterleaved ==
    /\ pc = "collect"
    /\ Len(reports) + Len(errorMessages) > 0
    /\ \E w \in DOMAIN worker : worker[w].pc = "call"
    /\ ~closed

----------------------------------------------------------------------------
(* Termination of the concurrent mode (C35) *)

\* the invocations that take the concurrent path: a list of several ids under a
\* context that can be cancelled or with a remote that never fails, a list of at
\* most one id under any context and with any number of failures
ConcurrentInit ==
    /\ Init
    /\ ~UseBatchMode(Len(instanceIDs))
    /\ instanceIDs = <<>> => ~UseBatchMode(Cardinality(DOMAIN tf.states))
    /\ ctx = "active" \/ faultsLeft = 0 \/ Len(instanceIDs) <= 1

\* the steps of the goroutine of the w-th id
WorkerStep(w) ==
    /\ w \in DOMAIN worker
    /\ \/ WorkerStart(w)
       \/ WorkerBackoffCancelled(w)
       \/ WorkerBackoffElapsed(w)
       \/ WorkerLimiter(w)
       \/ WorkerCall(w)

\* the steps of the goroutine that called DetectDrift
CallerStep ==
    \/ DetectDrift
    \/ Spawn
    \/ SpawnDone
    \/ Collect
    \/ CollectDone

ConcurrentNext ==
    \/ CallerStep
    \/ \E w \in 1..BatchThreshold : WorkerStep(w)
    \/ CloseResults
    \/ Tick
    \/ Cancel

\* every goroutine that can take a step is scheduled, every remote call returns,
\* and the ticker keeps ticking; nothing is assumed of the caller's cancellation
ConcurrentFairness ==
    /\ WF_vars(CallerStep)
    /\ \A w \in 1..BatchThreshold : WF_vars(WorkerStep(w))
    /\ WF_vars(CloseResults)
    /\ WF_vars(Tick)

ConcurrentLiveSpec == ConcurrentInit /\ [][ConcurrentNext]_vars /\ ConcurrentFairness

\* the call has returned from the concurrent path: every goroutine has ended
\* after at most 6 attempts, the channel is closed and drained
ReturnedCleanly ==
    (ret.returned /\ tf.err = NoErr) =>
        /\ pc = "done"
        /\ Len(worker) = Len(instanceIDs)
        /\ \A w \in DOMAIN worker :
              /\ worker[w].pc = "done"
              /\ worker[w].calls <= maxRetries + 1
        /\ wg = 0
        /\ closed
        /\ results = <<>>

\* no id resolved: an empty, non-nil report list and a nil error
NoIdsNoReports ==
    (ret.returned /\ tf.err = NoErr /\ instanceIDs = <<>>) =>
        /\ ret.reports = <<>>
        /\ ~ret.nilReports
        /\ ret.err = NoErr

\* C35: with every remote call returning and the rate limiter ticking, DetectDrift
\* in concurrent mode always returns: every worker finishes, each fetch after at
\* most 6 attempts, the results channel is closed and the call returns; with no
\* resolved id it returns an empty report list and a nil error.
C35_ConcurrentTerminates ==
    /\ <>ret.returned
    /\ []ReturnedCleanly
    /\ []NoIdsNoReports

\* a call over two ids returned after one fetch had used all 6 attempts
C35_Witness ==
    /\ ret.returned
    /\ pc = "done"
    /\ closed
    /\ \E w \in DOMAIN worker : worker[w].calls = maxRetries + 1

\* a call with no id to resolve returned
C35_WitnessNoIds ==
    /\ ret.returned
    /\ tf.err = NoErr
    /\ instanceIDs = <<>>
    /\ stats.requested = <<>>
    /\ ret.reports = <<>>
    /\ ret.err = NoErr

----------------------------------------------------------------------------
(* The aggregate error of GetInstanceStatesBatch (C36) *)

\* the invocations that take the batch path, and their steps
BatchInit ==
    /\ Init
    /\ UseBatchMode(IF instanceIDs = <<>> THEN Cardinality(DOMAIN tf.states)
                    ELSE Len(instanceIDs))

BatchNext ==
    \/ DetectDrift
    \/ BatchStart
    \/ BatchLimiter
    \/ BatchCall
    \/ BatchResolve
    \/ Tick
    \/ Cancel

BatchSpec == BatchInit /\ [][BatchNext]_vars

\* the per-id failures DetectDrift collected, as a set
MessageSet == {errorMessages[k] : k \in DOMAIN errorMessages}

NotFoundMessage(id) == "instance " \o id \o " not found in AWS"

NotInStateMessage(id) == "instance " \o id \o " not in terraform state"

\* every requested id is in the baseline and in the map GetInstanceStatesBatch returned
AllResolved ==
    Values(instanceIDs) \subseteq (DOMAIN expectedStates \cap DOMAIN batch.ret.states)

\* the error of GetInstanceStatesBatch is not what DetectDrift returns, and the
\* outcome follows from the returned map alone
BatchErrorOnlyLogged ==
    BatchRun =>
        /\ batch.ret.returned
        /\ batch.ret.err # NoErr <=> \E c \in DOMAIN stats.chunks : stats.chunks[c].failed
        /\ batch.ret.err # NoErr => ret.err # batch.ret.err
        /\ ret.err = NoErr <=> AllResolved
        /\ AllResolved => Len(ret.reports) = Len(instanceIDs)
        /\ Len(ret.reports) + Len(errorMessages) = Len(instanceIDs)

\* the positions of the request that fell into a chunk whose describe call failed
FailedPositions ==
    UNION {(stats.chunks[c].first)..(stats.chunks[c].last) :
              c \in {c \in DOMAIN stats.chunks : stats.chunks[c].failed}}

\* the positions of the request whose id does not resolve, in order: the j-th of
\* them is the position the j-th message is about
FailingPositions ==
    SelectSeq([k \in DOMAIN instanceIDs |-> k],
              LAMBDA k : \/ instanceIDs[k] \notin DOMAIN expectedStates
                         \/ instanceIDs[k] \notin DOMAIN batch.ret.states)

\* the message about every position of a failed chunk whose id is not among have,
\* the ids returned, is 'not found in AWS'
LostAsNotFound(failing, positions, have) ==
    /\ Len(failing) = Len(errorMessages)
    /\ \A j \in DOMAIN failing :
          (failing[j] \in positions /\ instanceIDs[failing[j]] \notin have) =>
              errorMessages[j] = NotFoundMessage(instanceIDs[failing[j]])

\* the message about every such position is the one of its case; known are the
\* ids of the baseline
LostPerId(failing, positions, have, known) ==
    /\ Len(failing) = Len(errorMessages)
    /\ \A j \in DOMAIN failing :
          (failing[j] \in positions /\ instanceIDs[failing[j]] \notin have) =>
              errorMessages[j] = IF instanceIDs[failing[j]] \in known
                                 THEN NotFoundMessage(instanceIDs[failing[j]])
                                 ELSE NotInStateMessage(instanceIDs[failing[j]])

\* C36 as stated: in batch mode the aggregate error of GetInstanceStatesBatch is
\* only logged and the result follows from the returned map, so with every
\* requested id in the baseline and in the map the error is nil although a chunk
\* failed; and every id of a failed chunk that no other chunk returned is reported
\* as 'not found in AWS'.
C36_BatchErrorLoggedLostNotFound ==
    /\ BatchErrorOnlyLogged
    /\ BatchRun =>
          LostAsNotFound(FailingPositions, FailedPositions, DOMAIN batch.ret.states)

\* C36 amended: as stated, but an id of a failed chunk that no other chunk
\* returned is reported as 'not found in AWS' when it is in the baseline, and as
\* 'not in terraform state' when it is not.
C36_BatchErrorLoggedLostPerId ==
    /\ BatchErrorOnlyLogged
    /\ BatchRun =>
          LostPerId(FailingPositions, FailedPositions, DOMAIN batch.ret.states,
                    DOMAIN expectedStates)

\* the chunk of the repeated id failed, the first chunk had returned it: a report
\* for every requested id and a nil error, the aggregate error being non-nil
C36_Witness ==
    /\ BatchRun
    /\ batch.ret.err # NoErr
    /\ AllResolved
    /\ ret.err = NoErr
    /\ Len(ret.reports) = maxBatchSize + 1

\* a chunk failed whose ids no other chunk returned, one of them not of the baseline
C36_WitnessLost ==
    /\ BatchRun
    /\ Id(1) \notin DOMAIN expectedStates
    /\ {1, 2} \subseteq FailedPositions
    /\ {Id(1), Id(2)} \cap DOMAIN batch.ret.states = {}
    /\ {NotInStateMessage(Id(1)), NotFoundMessage(Id(2))} \subseteq MessageSet

----------------------------------------------------------------------------
(* DetectDrift called with a context that is already cancelled (C37) *)

\* the invocations of Init whose context can be cancelled, called after it was
CancelledInit ==
    \E sc \in {s \in Scenarios : s.ctx = "active"} :
        /\ pc = "start"
        /\ tf = sc.tf
        /\ instanceIDs = sc.ids
        /\ expectedStates = StatesOf({})
        /\ worker = <<>>
        /\ wg = 0
        /\ results = <<>>
        /\ closed = FALSE
        /\ reports = <<>>
        /\ errorMessages = <<>>
        /\ authErrors = 0
        /\ batch = [i |-> 0, states |-> StatesOf({}), allErrors |-> <<>>,
                    ret |-> [states |-> StatesOf({}), err |-> NoErr, returned |-> FALSE]]
        /\ ret = NoRet
        /\ tickAvail = FALSE
        /\ ctx = "done"
        /\ faultsLeft = sc.faults
        /\ cmp = NoCompare
        /\ cls = NoClassify
        /\ stats = [ticks |-> 0, describes |-> 0, getState |-> 0, getBatch |-> 0,
                    batchPermits |-> 0, chunks |-> <<>>, requested |-> sc.ids]

\* the steps left with the context done: no timer of a retry wait fires
CancelledNext ==
    \/ CallerStep
    \/ CloseResults
    \/ Tick
    \/ \E w \in DOMAIN worker : WorkerStart(w)
    \/ \E w \in DOMAIN worker : WorkerLimiter(w)
    \/ \E w \in DOMAIN worker : WorkerCall(w)
    \/ \E w \in DOMAIN worker : WorkerBackoffCancelled(w)
    \/ BatchStart
    \/ BatchLimiter
    \/ BatchCall
    \/ BatchResolve

CancelledSpec == CancelledInit /\ [][CancelledNext]_vars

\* a GetInstanceState that returned under the cancelled context had its permit and
\* made its first remote call; it returned the cancellation only from the wait
\* before the first retry, after that call had failed retryably
FirstCallMade ==
    \A w \in DOMAIN worker :
        worker[w].out.returned =>
            /\ worker[w].permits = 1
            /\ worker[w].calls = 1
            /\ worker[w].waits = <<>>
            /\ IsCancelError(worker[w].out.err) <=>
                  (Len(worker[w].failures) = 1 /\ worker[w].lastErr.IsRetryable)
            /\ worker[w].failures = <<>> <=> worker[w].out.err = NoErr

\* GetInstanceStatesBatch under the cancelled context took a permit and made a
\* remote call for every chunk of the request
EveryChunkCalled ==
    batch.ret.returned =>
        /\ Len(stats.chunks) = (Len(instanceIDs) + maxBatchSize - 1) \div maxBatchSize
        /\ stats.batchPermits = Len(stats.chunks)
        /\ stats.describes = Len(stats.chunks)
        /\ \A c \in DOMAIN stats.chunks : stats.chunks[c].first = (c - 1) * maxBatchSize + 1

\* a fetch leaves the receive from the rate limiter only with a tick, and on to
\* the remote call; the batch loop likewise
PermitNotInterrupted ==
    /\ \A w \in DOMAIN worker :
          (worker[w].pc = "limiter" /\ worker'[w] # worker[w]) =>
              /\ tickAvail
              /\ worker'[w].pc = "call"
              /\ worker'[w].permits = worker[w].permits + 1
    /\ (pc = "batchLimiter" /\ pc' # pc) => tickAvail /\ pc' = "batchCall"

\* a fetch returns the cancellation only from the wait before a retry
CancelSeenInBackoffOnly ==
    \A w \in DOMAIN worker :
        (~worker[w].out.returned /\ worker'[w].out.returned
            /\ IsCancelError(worker'[w].out.err)) => worker[w].pc = "backoff"

\* C37: the fetcher observes cancellation only in the backoff wait before a
\* retry. Under a context that is already cancelled GetInstanceState still waits
\* for its permit, which cancellation does not interrupt, and makes its first
\* remote call, and GetInstanceStatesBatch takes a permit and makes a remote call
\* for every chunk.
C37_CancelSeenOnlyInBackoff ==
    /\ [](CtxDone /\ FirstCallMade /\ EveryChunkCalled)
    /\ [][PermitNotInterrupted /\ CancelSeenInBackoffOnly]_vars

\* under the cancelled context a fetch got its snapshot from its first call, and
\* another returned the cancellation after its first call had been throttled
C37_Witness ==
    /\ CtxDone
    /\ ret.returned
    /\ \E w \in DOMAIN worker : worker[w].out.err = NoErr /\ worker[w].calls = 1
    /\ \E w \in DOMAIN worker :
          /\ IsCancelError(worker[w].out.err)
          /\ worker[w].failures = <<ErrorTypeThrottling>>

\* under the cancelled context the three chunks of 2001 ids were all fetched
C37_WitnessBatch ==
    /\ CtxDone
    /\ BatchRun
    /\ Len(instanceIDs) = 2 * maxBatchSize + 1
    /\ stats.describes = 3
    /\ Len(ret.reports) = Len(instanceIDs)

----------------------------------------------------------------------------
(* No entry for an attribute present on one side only (C38) *)

\* the names CompareAttributes is called with
ComparedNames == Fields \cup UNION {Values(l) : l \in UnknownLists} \cup {"NoSuchField"}

\* the two values compareAttribute resolves for a name are both typed values
\* when the name is a field, and both nil when it is not
ResolvedAlike ==
    \A attr \in ComparedNames :
        /\ attr \in Fields =>
              /\ getAttributeValue(attr, cmp.expected) # NilValue
              /\ getAttributeValue(attr, cmp.actual) # NilValue
        /\ attr \notin Fields =>
              /\ getAttributeValue(attr, cmp.expected) = NilValue
              /\ getAttributeValue(attr, cmp.actual) = NilValue

\* the detail strings of the nil branches of determineDriftType
NilBranchDetails ==
    {"attribute present in instance but not in terraform",
     "attribute present in terraform but not in instance"}

\* no entry of the reports comes from a nil branch
NoNilBranchEntry ==
    \A r \in {cmp.report, cmp.first} :
        \A i \in DOMAIN r.Drifts :
            /\ r.Drifts[i].DriftType # DriftTypeMissingInTerraform
            /\ r.Drifts[i].Details \notin NilBranchDetails
            /\ r.Drifts[i].ExpectedValue # NilValue
            /\ r.Drifts[i].ActualValue # NilValue
            /\ r.Drifts[i].AttributeName \in Fields

\* C38: CompareAttributes never emits an entry for an attribute present on one
\* side and absent on the other: for a recognized name both resolved values are
\* non-nil, an empty list or map included, for an unrecognized name both are nil,
\* so no entry comes from the nil branches of determineDriftType and none has the
\* kind MISSING_IN_TERRAFORM.
C38_NoWholeAttributeAbsence == ResolvedAlike /\ NoNilBranchEntry

\* a baseline without groups against an instance with one, compared after a name
\* that is no field: one entry, of the extra kind
C38_Witness ==
    /\ cmp.pc = "done"
    /\ cmp.attrs = <<"NoSuchField", "SecurityGroups">>
    /\ cmp.expected.SecurityGroups = <<>>
    /\ cmp.actual.SecurityGroups = <<"sg-1">>
    /\ Len(cmp.report.Drifts) = 1
    /\ cmp.report.Drifts[1].DriftType = DriftTypeExtraInInstance
    /\ cmp.report.Drifts[1].ExpectedValue = Value("[]string", <<>>)

----------------------------------------------------------------------------
(* Lists that differ in their duplicate counts only (C39) *)

\* the two lists of the call hold the same values, not equally often
DuplicatesDiffer == GroupsUnequal /\ GroupsMissing = {} /\ GroupsExtra = {}

C39_WitnessShorter ==
    /\ DuplicatesDiffer
    /\ cmp.expected.SecurityGroups = <<"sg-1", "sg-1">>
    /\ cmp.actual.SecurityGroups = <<"sg-1">>
    /\ GroupsEntryIs(DriftTypeValueMismatch, {""})

----------------------------------------------------------------------------
(* The size of the concurrent fan-out (C40) *)

\* the goroutines started for ids that have not ended
Alive == {w \in DOMAIN worker : worker[w].pc # "done"}

\* C40: the concurrent fan-out is bounded. Concurrent mode is taken only for at
\* most 10 resolved ids, so a DetectDrift call never has more than 10 fetch
\* goroutines alive at once, and every larger list of ids is handled by the batch
\* path, which starts none.
C40_FanOutBounded ==
    /\ Len(worker) <= BatchThreshold
    /\ wg <= BatchThreshold
    /\ Cardinality(Alive) <= wg
    /\ pc \in {"spawn", "collect"} => Len(instanceIDs) <= BatchThreshold
    /\ Len(instanceIDs) > BatchThreshold => worker = <<>> /\ wg = 0 /\ results = <<>>

\* ten ids: all ten goroutines are alive
C40_Witness ==
    /\ pc = "collect"
    /\ Len(instanceIDs) = BatchThreshold
    /\ Cardinality(Alive) = BatchThreshold
    /\ wg = BatchThreshold

\* eleven ids: the call returned its reports without a goroutine
C40_WitnessBatch ==
    /\ pc = "done"
    /\ Len(instanceIDs) = BatchThreshold + 1
    /\ Len(ret.reports) = BatchThreshold + 1
    /\ stats.describes = 1
    /\ worker = <<>>

====
